---- MODULE Spec2Model ----
(***************************************************************************)
(* A model of the UPE compilation pipeline (src/upe/routes.py and the      *)
(* modules it imports): the compile handler, get_run, the feedback         *)
(* handler, the committee scoring and judging, the evidence and format     *)
(* gates, the output normalizer, the edit-operation engine and storage.    *)
(*                                                                         *)
(* Conventions.                                                            *)
(*  - A Python str is a sequence of tokens (words and whitespace runs), so  *)
(*    that str.split(), " ".join() and str.lower() are computed.           *)
(*  - A JSON value is a record [ty, v] with ty in obj/list/str/num/null.    *)
(*  - Scores are in tenths: 0.5 is 5, 0.1 per citation is 1, 0.80 is 8.     *)
(*    (0.5 + min(0.5, 0.1*n) evaluates in IEEE doubles to the double        *)
(*    nearest n/10 + 0.5 for n = 0..5, so tenths are exact for every        *)
(*    comparison the code makes.)                                          *)
(***************************************************************************)
EXTENDS Integers, Sequences, FiniteSets, TLC

VARIABLES
    fs,        \* storage: file name under BASE/<run id>/ -> content, per run id
    pc,        \* position of the compile call
    body,      \* the PabiInput of the compile call
    cands,     \* candidates list of the compile call
    judge,     \* winner, rubric_score, cites_count, triangulated
    doc,       \* the Doc built from the winner
    arts,      \* produced kinds and ArtifactMeta list of the compile call
    resp,      \* what the compile call returned (or raised)
    oracle,    \* the oracle's side: calls received, outputs still to vary
    got,       \* what the last get_run returned
    fb,        \* the feedback calls in flight, one record per caller
    pure       \* input and output of the pure function under check

vars == <<fs, pc, body, cands, judge, doc, arts, resp, oracle, got, fb, pure>>

-----------------------------------------------------------------------------
(* Bounds of the model *)

\* oracle calls of one compile that may answer differently from the typical answer
MaxDeviations == 1
\* longest secondaries list of a request
MaxSecondaries == 1
\* largest citation count of the pure-function inputs
MaxCites == 6
\* longest committee of the pure-function inputs
MaxCommittee == 3
\* ops per feedback payload
MaxOps == 1

-----------------------------------------------------------------------------
(* JSON values and the Python operations the code applies to them *)

JNull == [ty |-> "null", v |-> <<>>]
JStr(s) == [ty |-> "str", v |-> s]
JNum(n) == [ty |-> "num", v |-> n]
JList(xs) == [ty |-> "list", v |-> xs]
JObj(f) == [ty |-> "obj", v |-> f]
NoFields == [k \in {} |-> JNull]

IsDict(j) == j.ty = "obj"
IsList(j) == j.ty = "list"
IsStr(j) == j.ty = "str"

\* k in d
Has(j, k) == k \in DOMAIN j.v
\* d.get(k, default)
DictGet(j, k, default) == IF Has(j, k) THEN j.v[k] ELSE default

RECURSIVE SumLen(_)
SumLen(toks) == IF toks = <<>> THEN 0 ELSE Len(Head(toks)) + SumLen(Tail(toks))

\* len(x): a TypeError for a number or null
CanLen(j) == j.ty \in {"list", "str", "obj"}
PyLen(j) ==
    CASE j.ty = "list" -> Len(j.v)
      [] j.ty = "str" -> SumLen(j.v)
      [] j.ty = "obj" -> Cardinality(DOMAIN j.v)
      [] OTHER -> 0

Min(a, b) == IF a < b THEN a ELSE b

\* str.lower() token by token
LowerTok(t) ==
    CASE t = "Intro" -> "intro"
      [] t = "INTRO" -> "intro"
      [] t = "Body" -> "body"
      [] t = "Section" -> "section"
      [] OTHER -> t
Lower(s) == [i \in 1..Len(s) |-> LowerTok(s[i])]

-----------------------------------------------------------------------------
(* gears.py *)

gearProfiles ==
    [turbo |-> [k |-> 1, temps |-> <<3>>, reflect |-> 0, ragTopK |-> 6,
                web |-> FALSE, coach |-> FALSE, proofGate |-> FALSE,
                latencyMs |-> 6000],
     mentor |-> [k |-> 3, temps |-> <<2, 5>>, reflect |-> 1, ragTopK |-> 12,
                 web |-> FALSE, coach |-> TRUE, proofGate |-> FALSE,
                 latencyMs |-> 8000],
     proof |-> [k |-> 9, temps |-> <<1, 3, 7>>, reflect |-> 3, ragTopK |-> 32,
                web |-> TRUE, coach |-> FALSE, proofGate |-> TRUE,
                latencyMs |-> 30000, minCites |-> 5, rubricMin |-> 8,
                triangulate |-> TRUE]]

Modes == DOMAIN gearProfiles

\* gear.get(key, default)
GearGet(gear, key, default) == IF key \in DOMAIN gear THEN gear[key] ELSE default

-----------------------------------------------------------------------------
(* proof_gate.py, format_gate.py *)

\* the literal 0.80 of proof_gate, in tenths
GateScoreFloor == 8
\* the default of gear.get("minCites", 3)
DefaultMinCites == 3

\* proof_gate without its citation check
proof_gate_no_cites(rubric_score, min_cites, cites_count, triangulated) ==
    IF rubric_score < GateScoreFloor THEN <<FALSE, "score_below_threshold">>
    ELSE IF ~triangulated THEN <<FALSE, "no_dual_path_agreement">>
    ELSE <<TRUE, "ok">>

proof_gate(rubric_score, min_cites, cites_count, triangulated) ==
    IF rubric_score < GateScoreFloor THEN <<FALSE, "score_below_threshold">>
    ELSE IF cites_count < min_cites THEN <<FALSE, "not_enough_evidence">>
    ELSE IF ~triangulated THEN <<FALSE, "no_dual_path_agreement">>
    ELSE <<TRUE, "ok">>

InSeq(x, s) == \E i \in 1..Len(s) : s[i] = x

format_fidelity(primary, produced) ==
    IF InSeq(primary, produced) THEN <<TRUE, "ok">>
    ELSE <<FALSE, "missing_primary_artifact">>

-----------------------------------------------------------------------------
(* routes.py: the oracle call, the score heuristic, the judge *)

\* the +0.5 for sections, the 0.1 per citation and its cap of 0.5, in tenths
SectionBonus == 5
CiteStep == 1
CiteCap == 5
\* len(sections) >= 2
MinSections == 2

T(word) == JStr(<<word>>)
EmptyList == JList(<<>>)

ToolErrorJson ==
    JObj([status |-> T("TOOL_ERROR"),
          message |-> JStr(<<"malformed", " ", "JSON", " ", "from", " ", "model">>)])

\* What client.chat.completions.create does for one call:
\*   kind "raise"      the call itself fails (an exception out of create)
\*   kind "none"       message.content is None or ""
\*   kind "malformed"  content that json.loads rejects
\*   kind "json"       content that json.loads parses to value
Raise == [kind |-> "raise", value |-> JNull]
NoContent == [kind |-> "none", value |-> JNull]
Malformed == [kind |-> "malformed", value |-> JNull]
Content(j) == [kind |-> "json", value |-> j]

\* _llm_json past the create call: content or "{}", then json.loads under try
LlmJson(r) ==
    CASE r.kind = "none" -> JObj(NoFields)
      [] r.kind = "malformed" -> ToolErrorJson
      [] OTHER -> r.value

\* lines 104-108 raise when cand_json has no .get, or len(cites) has no len
CanScore(cand_json, mode) ==
    /\ IsDict(cand_json)
    /\ mode = "proof" => CanLen(DictGet(cand_json, "citations", EmptyList))

\* the score without the cap on the citation part
ScoreUncapped(cand_json, mode) ==
    LET sections == DictGet(cand_json, "sections", EmptyList)
        cites == DictGet(cand_json, "citations", EmptyList)
    IN  (IF IsList(sections) /\ Len(sections.v) >= MinSections
         THEN SectionBonus ELSE 0)
        + (IF mode = "proof" THEN CiteStep * PyLen(cites) ELSE 0)

Score(cand_json, mode) ==
    LET sections == DictGet(cand_json, "sections", EmptyList)
        cites == DictGet(cand_json, "citations", EmptyList)
    IN  (IF IsList(sections) /\ Len(sections.v) >= MinSections
         THEN SectionBonus ELSE 0)
        + (IF mode = "proof" THEN Min(CiteCap, CiteStep * PyLen(cites)) ELSE 0)

\* candidates.append({"id": f"C{i+1}", ...}): id n stands for "C<n>"
Candidate(n, cand_json, mode) ==
    [id |-> n, json |-> cand_json, score |-> Score(cand_json, mode)]

\* a descending sort that puts a later candidate before its equals
RECURSIVE InsertDescUnstable(_, _)
InsertDescUnstable(c, sorted) ==
    IF sorted = <<>> THEN <<c>>
    ELSE IF Head(sorted).score > c.score
         THEN <<Head(sorted)>> \o InsertDescUnstable(c, Tail(sorted))
         ELSE <<c>> \o sorted

\* list.sort(key=score, reverse=True) is stable: equal scores keep their order
RECURSIVE InsertDesc(_, _)
InsertDesc(c, sorted) ==
    IF sorted = <<>> THEN <<c>>
    ELSE IF Head(sorted).score >= c.score
         THEN <<Head(sorted)>> \o InsertDesc(c, Tail(sorted))
         ELSE <<c>> \o sorted

RECURSIVE SortDesc(_)
SortDesc(cs) ==
    IF cs = <<>> THEN <<>>
    ELSE InsertDesc(cs[Len(cs)], SortDesc(SubSeq(cs, 1, Len(cs) - 1)))

\* lines 111-118 raise when a len() has no len
CanJudge(sorted, gear) ==
    /\ CanLen(DictGet(sorted[1].json, "citations", EmptyList))
    /\ (GearGet(gear, "triangulate", FALSE) /\ Len(sorted) >= 2)
          => CanLen(DictGet(sorted[2].json, "sections", EmptyList))

Triangulated(sorted, gear) ==
    IF GearGet(gear, "triangulate", FALSE)
    THEN /\ Len(sorted) >= 2
         /\ PyLen(DictGet(sorted[2].json, "sections", EmptyList)) >= MinSections
    ELSE TRUE

Judge(sorted, gear) ==
    [winner |-> sorted[1],
     rubric_score |-> sorted[1].score,
     cites_count |-> PyLen(DictGet(sorted[1].json, "citations", EmptyList)),
     triangulated |-> Triangulated(sorted, gear)]

-----------------------------------------------------------------------------
(* schema_transformer.py *)

\* str(x): a str is itself, anything else its printed form as one token
PyStr(j) == IF IsStr(j) THEN j ELSE JStr(<<ToString(j.v)>>)

\* a mapping that looks at content before the block's own field
transform_block_content_first(block) ==
    IF ~IsDict(block) THEN block
    ELSE LET block_type == DictGet(block, "type", JStr(<<>>))
             own(key, default) ==
                 DictGet(block, "content", DictGet(block, key, default))
         IN  IF block_type = T("text")
             THEN JObj([kind |-> T("para"), text |-> own("text", JStr(<<>>))])
             ELSE IF block_type = T("list")
             THEN JObj([kind |-> T("list"), items |-> own("items", EmptyList)])
             ELSE IF block_type = T("table")
             THEN JObj([kind |-> T("table"), rows |-> own("rows", EmptyList)])
             ELSE IF block_type = T("chart")
             THEN JObj([kind |-> T("chart"), spec |-> own("spec", JObj(NoFields))])
             ELSE JObj([kind |-> T("para"),
                        text |-> PyStr(own("text", JStr(<<>>)))])

transform_block(block) ==
    IF ~IsDict(block) THEN block
    ELSE LET block_type == DictGet(block, "type", JStr(<<>>))
             content(default) ==
                 DictGet(block, "content", default)
         IN  IF block_type = T("text")
             THEN JObj([kind |-> T("para"),
                        text |-> content(DictGet(block, "text", JStr(<<>>)))])
             ELSE IF block_type = T("list")
             THEN JObj([kind |-> T("list"),
                        items |-> DictGet(block, "items", content(EmptyList))])
             ELSE IF block_type = T("table")
             THEN JObj([kind |-> T("table"),
                        rows |-> DictGet(block, "rows", content(EmptyList))])
             ELSE IF block_type = T("chart")
             THEN JObj([kind |-> T("chart"),
                        spec |-> DictGet(block, "spec", content(JObj(NoFields)))])
             ELSE JObj([kind |-> T("para"),
                        text |-> PyStr(content(DictGet(block, "text", JStr(<<>>))))])

transform_section(section) ==
    IF ~IsDict(section) THEN section
    ELSE LET blocks == DictGet(section, "blocks", EmptyList)
         IN  JObj([id |-> DictGet(section, "id", JStr(<<>>)),
                   heading |-> DictGet(section, "heading", JStr(<<>>)),
                   blocks |-> IF IsList(blocks)
                              THEN JList([i \in 1..Len(blocks.v) |->
                                             transform_block(blocks.v[i])])
                              ELSE EmptyList])

\* ai_output is a dict here: the committee loop has already called .get on it
transform_ai_output_to_schema(ai_output) ==
    LET sections == DictGet(ai_output, "sections", EmptyList)
        base == [title |-> DictGet(ai_output, "title",
                                   JStr(<<"Untitled", " ", "Document">>)),
                 sections |-> IF IsList(sections)
                              THEN JList([i \in 1..Len(sections.v) |->
                                             transform_section(sections.v[i])])
                              ELSE EmptyList]
    IN  IF Has(ai_output, "citations")
        THEN JObj([title |-> base.title, sections |-> base.sections,
                   citations |-> ai_output.v["citations"]])
        ELSE JObj(base)

\* d with d[k] = x
DictSet(j, k, x) ==
    JObj([f \in DOMAIN j.v \cup {k} |-> IF f = k THEN x ELSE j.v[f]])
DictDefault(j, k, x) == IF Has(j, k) THEN j ELSE DictSet(j, k, x)

\* `"id" not in section` and `section["id"] = ...` need a dict: a str, a list,
\* a number or null section raises TypeError at one of the two
CanFixSchema(data) ==
    LET d == DictDefault(data, "sections", EmptyList)
    IN  /\ CanLen(d.v["sections"])
        /\ IsList(d.v["sections"]) =>
              \A i \in 1..Len(d.v["sections"].v) : IsDict(d.v["sections"].v[i])
        /\ IsStr(d.v["sections"]) => d.v["sections"].v = <<>>
        /\ IsDict(d.v["sections"]) => d.v["sections"].v = NoFields

FixSection(section, n) ==
    DictDefault(
        DictDefault(
            DictDefault(section, "id", JStr(<<"section_" \o ToString(n)>>)),
            "heading", T("Section")),
        "blocks", EmptyList)

validate_and_fix_schema(data) ==
    LET d1 == DictDefault(data, "title", JStr(<<"Generated", " ", "Document">>))
        d2 == DictDefault(d1, "sections", EmptyList)
        secs == d2.v["sections"]
    IN  IF IsList(secs)
        THEN DictSet(d2, "sections",
                     JList([i \in 1..Len(secs.v) |->
                               FixSection(secs.v[i], Len(secs.v))]))
        ELSE d2

-----------------------------------------------------------------------------
(* doc_ast.py: the pydantic models, Doc.model_validate and model_dump.       *)
(* A Doc is [title, sections]; a Section [id, heading, blocks]; a block is  *)
(* a Para [kind, text, claims], a ListBlock [kind, items], a Table          *)
(* [kind, rows] or a Chart [kind, spec].                                    *)

StrList(j) == IsList(j) /\ \A i \in 1..Len(j.v) : IsStr(j.v[i])
StrRows(j) == IsList(j) /\ \A i \in 1..Len(j.v) : StrList(j.v[i])

\* kind: Literal[k] = k
KindIs(b, k) == Has(b, "kind") => b.v["kind"] = T(k)

ValidClaim(c) ==
    /\ IsDict(c)
    /\ Has(c, "id") /\ IsStr(c.v["id"])
    /\ Has(c, "text") /\ IsStr(c.v["text"])

ValidClaims(b) ==
    Has(b, "claims") =>
        \/ b.v["claims"] = JNull
        \/ /\ IsList(b.v["claims"])
           /\ \A i \in 1..Len(b.v["claims"].v) : ValidClaim(b.v["claims"].v[i])

IsPara(b) ==
    /\ KindIs(b, "para")
    /\ Has(b, "text") /\ IsStr(b.v["text"])
    /\ ValidClaims(b)
IsListBlock(b) == KindIs(b, "list") /\ Has(b, "items") /\ StrList(b.v["items"])
IsTable(b) == KindIs(b, "table") /\ Has(b, "rows") /\ StrRows(b.v["rows"])
IsChart(b) == KindIs(b, "chart") /\ Has(b, "spec")

\* Block = Para | ListBlock | Table | Chart
ValidBlock(b) == IsDict(b) /\ (IsPara(b) \/ IsListBlock(b) \/ IsTable(b) \/ IsChart(b))

Texts(j) == [i \in 1..Len(j.v) |-> j.v[i].v]

BlockModel(b) ==
    IF IsPara(b)
    THEN [kind |-> "para", text |-> b.v["text"].v,
          claims |-> DictGet(b, "claims", JNull)]
    ELSE IF IsListBlock(b)
    THEN [kind |-> "list", items |-> Texts(b.v["items"])]
    ELSE IF IsTable(b)
    THEN [kind |-> "table",
          rows |-> [i \in 1..Len(b.v["rows"].v) |-> Texts(b.v["rows"].v[i])]]
    ELSE [kind |-> "chart", spec |-> b.v["spec"]]

ValidSection(sec) ==
    /\ IsDict(sec)
    /\ Has(sec, "id") /\ IsStr(sec.v["id"])
    /\ Has(sec, "heading") /\ IsStr(sec.v["heading"])
    /\ Has(sec, "blocks") /\ IsList(sec.v["blocks"])
    /\ \A i \in 1..Len(sec.v["blocks"].v) : ValidBlock(sec.v["blocks"].v[i])

SectionModel(sec) ==
    [id |-> sec.v["id"].v, heading |-> sec.v["heading"].v,
     blocks |-> [i \in 1..Len(sec.v["blocks"].v) |->
                    BlockModel(sec.v["blocks"].v[i])]]

\* Doc.model_validate(j) succeeds; Doc forbids extra fields
CanValidateDoc(j) ==
    /\ IsDict(j)
    /\ DOMAIN j.v = {"title", "sections"}
    /\ IsStr(j.v["title"])
    /\ IsList(j.v["sections"])
    /\ \A i \in 1..Len(j.v["sections"].v) : ValidSection(j.v["sections"].v[i])

DocModel(j) ==
    [title |-> j.v["title"].v,
     sections |-> [i \in 1..Len(j.v["sections"].v) |->
                      SectionModel(j.v["sections"].v[i])]]

StrsJson(ss) == JList([i \in 1..Len(ss) |-> JStr(ss[i])])

BlockDump(b) ==
    CASE b.kind = "para" ->
            JObj([kind |-> T("para"), text |-> JStr(b.text), claims |-> b.claims])
      [] b.kind = "list" -> JObj([kind |-> T("list"), items |-> StrsJson(b.items)])
      [] b.kind = "table" ->
            JObj([kind |-> T("table"),
                  rows |-> JList([i \in 1..Len(b.rows) |-> StrsJson(b.rows[i])])])
      [] OTHER -> JObj([kind |-> T("chart"), spec |-> b.spec])

\* doc.model_dump()
model_dump(d) ==
    JObj([title |-> JStr(d.title),
          sections |-> JList([i \in 1..Len(d.sections) |->
              JObj([id |-> JStr(d.sections[i].id),
                    heading |-> JStr(d.sections[i].heading),
                    blocks |-> JList([n \in 1..Len(d.sections[i].blocks) |->
                                         BlockDump(d.sections[i].blocks[n])])])])])

NoDoc == [title |-> <<>>, sections |-> <<>>]

\* routes.py step 4: the dict handed to Doc.model_validate
DocInput(validated) ==
    LET secs == validated.v["sections"].v
    IN  JObj([title |-> validated.v["title"],
              sections |-> JList([i \in 1..Len(secs) |->
                  JObj([id |-> secs[i].v["id"], heading |-> secs[i].v["heading"],
                        blocks |-> DictGet(secs[i], "blocks", EmptyList)])])])

\* routes.py step 4 under its try: [ok, doc]; ok = FALSE is the HTTP 422
BuildDoc(winner_json) ==
    LET transformed == transform_ai_output_to_schema(winner_json)
    IN  IF ~CanFixSchema(transformed) THEN [ok |-> FALSE, doc |-> NoDoc]
        ELSE LET input == DocInput(validate_and_fix_schema(transformed))
             IN  IF CanValidateDoc(input)
                 THEN [ok |-> TRUE, doc |-> DocModel(input)]
                 ELSE [ok |-> FALSE, doc |-> NoDoc]

-----------------------------------------------------------------------------
(* sabi.py: apply_edit_ops *)

\* the default of op.get("max_words", 200)
DefaultMaxWords == 200

IsSpace(tok) == tok \in {" ", "  "}
NotSpace(tok) == ~IsSpace(tok)
\* text.split()
Words(s) == SelectSeq(s, NotSpace)
\* " ".join(words)
RECURSIVE Join(_)
Join(ws) ==
    IF Len(ws) <= 1 THEN ws ELSE <<Head(ws), " ">> \o Join(Tail(ws))
\* words[:n], n negative counts from the end
Prefix(ws, n) ==
    IF n >= 0 THEN SubSeq(ws, 1, Min(n, Len(ws)))
    ELSE SubSeq(ws, 1, IF Len(ws) + n > 0 THEN Len(ws) + n ELSE 0)

\* int(x): a number, or a str of digits
IntToks == {"0", "1", "2", "3"}
CanInt(j) == j.ty = "num" \/ (IsStr(j) /\ Len(j.v) = 1 /\ j.v[1] \in IntToks)
PyInt(j) ==
    IF j.ty = "num" THEN j.v
    ELSE CASE j.v[1] = "0" -> 0 [] j.v[1] = "1" -> 1 [] j.v[1] = "2" -> 2
           [] OTHER -> 3

OpTag(op) == DictGet(op, "op", JNull)

\* an engine that raises on a tag it does not know
CanApplyKnownOp(op) ==
    OpTag(op) \in {T("remove"), T("focus"), T("rewrite"), T("limit")}

\* .lower() needs a str, int() a number or digits: otherwise the op raises
CanApplyOp(op) ==
    CASE OpTag(op) = T("remove") -> IsStr(DictGet(op, "target", JStr(<<>>)))
      [] OpTag(op) = T("limit") ->
            /\ IsStr(DictGet(op, "section", JStr(<<>>)))
            /\ CanInt(DictGet(op, "max_words", JNum(DefaultMaxWords)))
      [] OTHER -> TRUE

LimitBlock(b, max_words) ==
    IF b.kind = "para" /\ Len(Words(b.text)) > max_words
    THEN [b EXCEPT !.text = Join(Prefix(Words(b.text), max_words))]
    ELSE b

\* for b in s.blocks
RECURSIVE LimitBlocks(_, _)
LimitBlocks(blocks, max_words) ==
    IF blocks = <<>> THEN <<>>
    ELSE <<LimitBlock(Head(blocks), max_words)>> \o LimitBlocks(Tail(blocks), max_words)

LimitSection(sec, section, max_words) ==
    IF Lower(sec.heading) = section
    THEN [sec EXCEPT !.blocks = LimitBlocks(@, max_words)]
    ELSE sec

\* for s in ndoc.sections
RECURSIVE LimitSections(_, _, _)
LimitSections(secs, section, max_words) ==
    IF secs = <<>> THEN <<>>
    ELSE <<LimitSection(Head(secs), section, max_words)>>
         \o LimitSections(Tail(secs), section, max_words)

\* a comparison that forgets .lower() on the heading
KeepSectionExact(sec, target) == sec.heading /= target

KeepSection(sec, target) == Lower(sec.heading) /= target

RECURSIVE RemoveSections(_, _)
RemoveSections(secs, target) ==
    IF secs = <<>> THEN <<>>
    ELSE (IF KeepSection(Head(secs), target) THEN <<Head(secs)>> ELSE <<>>)
         \o RemoveSections(Tail(secs), target)

ApplyOp(d, op) ==
    CASE OpTag(op) = T("remove") ->
            [d EXCEPT !.sections =
                RemoveSections(d.sections, Lower(DictGet(op, "target", JStr(<<>>)).v))]
      [] OpTag(op) = T("focus") ->
            IF d.sections /= <<>>
            THEN [d EXCEPT !.sections[1].blocks =
                     Append(@, [kind |-> "list",
                                items |-> <<<<"Focus", " ", "on:", " ">>
                                    \o PyStr(DictGet(op, "topic", JStr(<<>>))).v>>])]
            ELSE d
      [] OpTag(op) = T("rewrite") ->
            IF DictGet(op, "target", JNull) = T("tone")
            THEN [d EXCEPT !.title =
                     @ \o <<" ", "[">> \o PyStr(DictGet(op, "to", JStr(<<>>))).v
                       \o <<"]">>]
            ELSE d
      [] OpTag(op) = T("limit") ->
            [d EXCEPT !.sections =
                LimitSections(@, Lower(DictGet(op, "section", JStr(<<>>)).v),
                              PyInt(DictGet(op, "max_words", JNum(DefaultMaxWords))))]
      [] OTHER -> d

\* [ok, doc]: ok = FALSE when an op raised, which aborts the whole call
RECURSIVE ApplyOps(_, _)
ApplyOps(d, ops) ==
    IF ops = <<>> THEN [ok |-> TRUE, doc |-> d]
    ELSE IF ~CanApplyOp(Head(ops)) THEN [ok |-> FALSE, doc |-> NoDoc]
    ELSE ApplyOps(ApplyOp(d, Head(ops)), Tail(ops))

\* ndoc = copy.deepcopy(doc): values here are immutable, the copy is the value
apply_edit_ops(d, ops) == ApplyOps(d, ops)

-----------------------------------------------------------------------------
(* sabi.py on the heap: the objects behind a Doc, by address.  A heap is a  *)
(* sequence of objects, an address an index of it:                          *)
(*   Doc      [cls, title, sections: address of a list]                     *)
(*   list     [cls, items: addresses]                                       *)
(*   Section  [cls, id, heading, blocks: address of a list]                 *)
(*   Block    [cls, val: the block with its str, items, rows by value]      *)
(* str values are immutable; no op reaches inside a block's items or rows.  *)

RECURSIVE NewBlocks(_, _)
NewBlocks(h, blocks) ==
    IF blocks = <<>> THEN [h |-> h, refs |-> <<>>]
    ELSE LET h1 == Append(h, [cls |-> "Block", val |-> Head(blocks)])
             rest == NewBlocks(h1, Tail(blocks))
         IN  [h |-> rest.h, refs |-> <<Len(h1)>> \o rest.refs]

NewSection(h, sec) ==
    LET b == NewBlocks(h, sec.blocks)
        h1 == Append(b.h, [cls |-> "list", items |-> b.refs])
        h2 == Append(h1, [cls |-> "Section", id |-> sec.id,
                          heading |-> sec.heading, blocks |-> Len(h1)])
    IN  [h |-> h2, ref |-> Len(h2)]

RECURSIVE NewSections(_, _)
NewSections(h, secs) ==
    IF secs = <<>> THEN [h |-> h, refs |-> <<>>]
    ELSE LET s == NewSection(h, Head(secs))
             rest == NewSections(s.h, Tail(secs))
         IN  [h |-> rest.h, refs |-> <<s.ref>> \o rest.refs]

\* the objects of a Doc, as Doc.model_validate makes them
NewDoc(h, d) ==
    LET s == NewSections(h, d.sections)
        h1 == Append(s.h, [cls |-> "list", items |-> s.refs])
        h2 == Append(h1, [cls |-> "Doc", title |-> d.title, sections |-> Len(h1)])
    IN  [h |-> h2, ref |-> Len(h2)]

BlocksAt(h, a) == [i \in 1..Len(h[a].items) |-> h[h[a].items[i]].val]
SectionAt(h, a) ==
    [id |-> h[a].id, heading |-> h[a].heading, blocks |-> BlocksAt(h, h[a].blocks)]
\* the Doc an address stands for
DocAt(h, a) ==
    [title |-> h[a].title,
     sections |-> [i \in 1..Len(h[h[a].sections].items) |->
                      SectionAt(h, h[h[a].sections].items[i])]]

SectionRefs(h, a) == {h[h[a].sections].items[i] : i \in 1..Len(h[h[a].sections].items)}
BlockRefs(h, s) == {h[h[s].blocks].items[i] : i \in 1..Len(h[h[s].blocks].items)}
\* every object reachable from the Doc at a
Reach(h, a) ==
    {a, h[a].sections} \cup SectionRefs(h, a)
        \cup {h[s].blocks : s \in SectionRefs(h, a)}
        \cup UNION {BlockRefs(h, s) : s \in SectionRefs(h, a)}

\* copy.copy(doc): a new Doc object over the same sections list
shallow_copy(h, a) == [h |-> Append(h, h[a]), ref |-> Len(h) + 1]

\* copy.deepcopy(doc): every object reachable from doc is made anew
deepcopy(h, a) == NewDoc(h, DocAt(h, a))

RECURSIVE KeepRefs(_, _, _)
KeepRefs(h, refs, target) ==
    IF refs = <<>> THEN <<>>
    ELSE (IF Lower(h[Head(refs)].heading) /= target THEN <<Head(refs)>> ELSE <<>>)
         \o KeepRefs(h, Tail(refs), target)

\* ndoc.sections = [s for s in ndoc.sections if ...]: a new list is bound
HeapRemove(h, nd, target) ==
    LET h1 == Append(h, [cls |-> "list",
                         items |-> KeepRefs(h, h[h[nd].sections].items, target)])
    IN  [h1 EXCEPT ![nd].sections = Len(h1)]

\* ndoc.sections[0].blocks.append(blk): the list is changed in place
HeapFocus(h, nd, topic) ==
    LET secs == h[h[nd].sections].items
        h1 == Append(h, [cls |-> "Block",
                         val |-> [kind |-> "list",
                                  items |-> <<<<"Focus", " ", "on:", " ">> \o topic>>]])
    IN  IF secs = <<>> THEN h
        ELSE [h1 EXCEPT ![h[secs[1]].blocks].items = Append(@, Len(h1))]

\* ndoc.title = f"{ndoc.title} [{to}]"
HeapRetitle(h, nd, to) ==
    [h EXCEPT ![nd].title = @ \o <<" ", "[">> \o to \o <<"]">>]

\* b.text = " ".join(words[:max_words]) on each block object of the set hit
RECURSIVE LimitAt(_, _, _)
LimitAt(h, hit, max_words) ==
    IF hit = {} THEN h
    ELSE LET a == CHOOSE x \in hit : TRUE
         IN  LimitAt([h EXCEPT ![a].val = LimitBlock(@, max_words)],
                     hit \ {a}, max_words)

\* the limit op on the blocks of the matching sections
HeapLimit(h, nd, section, max_words) ==
    LET hit == UNION {BlockRefs(h, s) :
                         s \in {x \in SectionRefs(h, nd) : Lower(h[x].heading) = section}}
    IN  LimitAt(h, hit, max_words)

HeapApplyOp(h, nd, op) ==
    CASE OpTag(op) = T("remove") ->
            HeapRemove(h, nd, Lower(DictGet(op, "target", JStr(<<>>)).v))
      [] OpTag(op) = T("focus") ->
            HeapFocus(h, nd, PyStr(DictGet(op, "topic", JStr(<<>>))).v)
      [] OpTag(op) = T("rewrite") ->
            IF DictGet(op, "target", JNull) = T("tone")
            THEN HeapRetitle(h, nd, PyStr(DictGet(op, "to", JStr(<<>>))).v)
            ELSE h
      [] OpTag(op) = T("limit") ->
            HeapLimit(h, nd, Lower(DictGet(op, "section", JStr(<<>>)).v),
                      PyInt(DictGet(op, "max_words", JNum(DefaultMaxWords))))
      [] OTHER -> h

\* the loop over ops on the objects of ndoc: [ok, h]
RECURSIVE HeapApplyOps(_, _, _)
HeapApplyOps(h, nd, ops) ==
    IF ops = <<>> THEN [ok |-> TRUE, h |-> h]
    ELSE IF ~CanApplyOp(Head(ops)) THEN [ok |-> FALSE, h |-> h]
    ELSE HeapApplyOps(HeapApplyOp(h, nd, Head(ops)), nd, Tail(ops))

\* apply_edit_ops(doc, ops) on the heap: [ok, h, ref], ref the returned ndoc
apply_edit_ops_heap(h, a, ops) ==
    LET c == deepcopy(h, a)
        r == HeapApplyOps(c.h, c.ref, ops)
    IN  [ok |-> r.ok, h |-> r.h, ref |-> c.ref]

-----------------------------------------------------------------------------
(* renderers: what a renderer writes is the title, the headings and the     *)
(* blocks of the kinds it handles; the other blocks are skipped.            *)

ShownBlock(kinds, b) == b.kind \in kinds

RECURSIVE ShownBlocks(_, _)
ShownBlocks(kinds, blocks) ==
    IF blocks = <<>> THEN <<>>
    ELSE (IF ShownBlock(kinds, Head(blocks)) THEN <<Head(blocks)>> ELSE <<>>)
         \o ShownBlocks(kinds, Tail(blocks))

RenderWith(fmt, kinds, d) ==
    [fmt |-> fmt, title |-> d.title,
     body |-> [i \in 1..Len(d.sections) |->
                  [heading |-> d.sections[i].heading,
                   blocks |-> ShownBlocks(kinds, d.sections[i].blocks)]]]

render_html(d) == RenderWith("html", {"para", "list"}, d)
render_pdf(d) == RenderWith("pdf", {"para", "list"}, d)
render_docx(d) == RenderWith("docx", {"para", "list", "table"}, d)
render_xlsx(d) == RenderWith("xlsx", {"para", "list", "table"}, d)

\* render_docx indexes block.rows[r][c] for c < len(block.rows[0])
CanRenderDocx(d) ==
    \A i \in 1..Len(d.sections) : \A n \in 1..Len(d.sections[i].blocks) :
        LET b == d.sections[i].blocks[n]
        IN  b.kind = "table" =>
                \A r \in 1..Len(b.rows) : Len(b.rows[r]) >= Len(b.rows[1])

CanRender(kind, d) == kind = "docx" => CanRenderDocx(d)

Render(kind, d) ==
    CASE kind = "html" -> render_html(d)
      [] kind = "pdf" -> render_pdf(d)
      [] kind = "docx" -> render_docx(d)
      [] OTHER -> render_xlsx(d)

-----------------------------------------------------------------------------
(* storage.py: files under BASE/<run id>/.  A file is [st, len, data]:      *)
(* st "absent", "empty" (opened for writing, nothing flushed yet), "ok"     *)
(* (data is what was written) or "torn" (a shorter write over a longer one: *)
(* the tail of the longer one remains, json.load rejects it).               *)

RunIds == {"r1", "r2"}
FileNames == {"manifest.json", "artifact.pdf", "artifact.html",
              "artifact.docx", "artifact.xlsx"}

Nil == [nil |-> TRUE]
Absent == [st |-> "absent", len |-> 0, data |-> Nil]
NoDir == [dir |-> FALSE, files |-> [n \in FileNames |-> Absent]]

\* os.makedirs(path, exist_ok=True)
ensure_dir(store, run) == [store EXCEPT ![run].dir = TRUE]

\* os.path.exists(path)
Exists(store, run, name) == store[run].files[name].st /= "absent"

\* open(path, "w"): creates or truncates
OpenTrunc(store, run, name) ==
    [store EXCEPT ![run].files[name] = [st |-> "empty", len |-> 0, data |-> Nil]]

\* the flush at close of a handle opened by OpenTrunc: n bytes at offset 0
FlushClose(store, run, name, data, n) ==
    [store EXCEPT ![run].files[name] =
        IF @.len > n THEN [st |-> "torn", len |-> @.len, data |-> Nil]
        ELSE [st |-> "ok", len |-> n, data |-> data]]

RECURSIVE JsonLen(_), JsonLenSeq(_), JsonLenFields(_, _)
\* the length of json.dumps(j), token lengths standing for characters
JsonLen(j) ==
    CASE j.ty = "str" -> 2 + SumLen(j.v)
      [] j.ty = "num" -> 1
      [] j.ty = "null" -> 4
      [] j.ty = "list" -> 2 + JsonLenSeq(j.v)
      [] OTHER -> 2 + JsonLenFields(j.v, DOMAIN j.v)
JsonLenSeq(xs) == IF xs = <<>> THEN 0 ELSE JsonLen(Head(xs)) + JsonLenSeq(Tail(xs))
JsonLenFields(f, ks) ==
    IF ks = {} THEN 0
    ELSE LET k == CHOOSE x \in ks : TRUE
         IN  Len(k) + 3 + JsonLen(f[k]) + JsonLenFields(f, ks \ {k})

\* the length of the manifest file: only docAst varies between two writes
\* of one run's manifest
ManifestLen(m) == JsonLen(m.docAst)

\* write_json(path, obj): ensure_dir, open, json.dump, close
write_json(store, run, name, obj) ==
    FlushClose(OpenTrunc(ensure_dir(store, run), run, name), run, name,
               obj, ManifestLen(obj))

\* read_json(path) returns: json.load accepts the file
CanReadJson(store, run, name) == store[run].files[name].st = "ok"
read_json(store, run, name) == store[run].files[name].data

\* a renderer's output file: the file is written whole, its length is that
\* of the rendered text
RenderedLen(r) == JsonLen(JStr(r.title)) +
    JsonLenSeq([i \in 1..Len(r.body) |->
        JList(<<JStr(r.body[i].heading)>> \o
              [n \in 1..Len(r.body[i].blocks) |-> BlockDump(r.body[i].blocks[n])])])

\* a renderer that writes no file
WriteArtifactNowhere(store, run, kind, d) == store

WriteArtifact(store, run, kind, d) ==
    [store EXCEPT ![run].files["artifact." \o kind] =
        [st |-> "ok", len |-> RenderedLen(Render(kind, d)), data |-> Render(kind, d)]]

\* _sha256_bytes: the digest stands for the bytes it was taken of
Sha256(data) == data

-----------------------------------------------------------------------------
(* retrieval.py.  A source is [id, title, body]; ids and titles are numbers *)
(* standing for strings in their order.                                     *)

\* _sha256: the digest stands for the text it was taken of
sha256_str(s) == s

\* the key (d.get("title",""), d.get("id","")) of a before that of b
KeyBefore(a, b) == a.title < b.title \/ (a.title = b.title /\ a.id < b.id)

RECURSIVE InsertByKey(_, _)
InsertByKey(d, sorted) ==
    IF sorted = <<>> THEN <<d>>
    ELSE IF KeyBefore(d, Head(sorted)) THEN <<d>> \o sorted
    ELSE <<Head(sorted)>> \o InsertByKey(d, Tail(sorted))

\* sorted(docs, key=...): ascending and stable
RECURSIVE SortedByKey(_)
SortedByKey(docs) ==
    IF docs = <<>> THEN <<>>
    ELSE InsertByKey(docs[Len(docs)], SortedByKey(SubSeq(docs, 1, Len(docs) - 1)))

\* xs[:n]
FirstN(xs, n) == SubSeq(xs, 1, Min(n, Len(xs)))

deterministic_snapshot(docs, topK) ==
    LET top == FirstN(SortedByKey(docs), topK)
    IN  [i \in 1..Len(top) |->
            [id |-> top[i].id, title |-> top[i].title, hash |-> sha256_str(top[i].body)]]

\* load_from_chromadb: the first topK documents of col.get(), as delivered
load_from_chromadb(delivered, topK) == FirstN(delivered, topK)

-----------------------------------------------------------------------------
(* The inputs of the compile call *)

\* the run id uuid4 gives the compile call; "r2" is an id no compile was given
TheRun == "r1"

Cite(n) == JObj([id |-> T("c"), source_id |-> T("s"), quote |-> T("q")])
Cites(n) == JList([i \in 1..n |-> Cite(i)])

TextBlock(toks) == JObj([type |-> T("text"), content |-> JStr(toks)])
Sec(id, heading, toks) ==
    JObj([id |-> T(id), heading |-> T(heading), blocks |-> JList(<<TextBlock(toks)>>)])

TwoSections ==
    JList(<<Sec("s1", "Intro", <<"one", " ", "two", " ", "three">>),
            Sec("s2", "Body", <<"four">>)>>)

\* two sections and five citations: 1.0 under proof
Strong == Content(JObj([title |-> T("Report"), sections |-> TwoSections,
                        citations |-> Cites(5)]))
\* two sections and three citations: 0.8 under proof, short of minCites
Mid == Content(JObj([title |-> T("Report"), sections |-> TwoSections,
                     citations |-> Cites(3)]))
\* a JSON document that is not an object
NonObject == Content(EmptyList)
\* two sections, the second not an object
BadShape == Content(JObj([title |-> T("Report"),
                          sections |-> JList(<<Sec("s1", "Intro", <<"one">>),
                                               T("oops")>>)]))

\* sections present and not a list
SectionsNotList == Content(JObj([title |-> T("Report"), sections |-> T("oops")]))

OracleResponses ==
    {Strong, Mid, Malformed, NonObject, BadShape, SectionsNotList, Raise}

PrimaryKinds == {"pdf", "html", "md"}
SecondaryKinds == {"pdf", "html"}

RECURSIVE SeqsUpTo(_, _)
SeqsUpTo(S, n) ==
    IF n = 0 THEN {<<>>}
    ELSE LET shorter == SeqsUpTo(S, n - 1)
         IN  shorter \cup {Append(q, x) : q \in shorter, x \in S}

\* seed: Optional[int] = None is left out of these requests
Bodies ==
    [mode : Modes, seed : {Nil},
     artifact : [primary : PrimaryKinds,
                 secondaries : SeqsUpTo(SecondaryKinds, MaxSecondaries)]]

NoBody == [mode |-> "none", seed |-> Nil,
           artifact |-> [primary |-> "none", secondaries |-> <<>>]]
NoCandidate == [id |-> 0, json |-> JNull, score |-> 0]
NoJudge == [winner |-> NoCandidate, rubric_score |-> 0, cites_count |-> 0,
            triangulated |-> FALSE]
NoArts == [produced |-> <<>>, artifacts |-> <<>>, next |-> 1]
NoResp == [http |-> 0, status |-> "none", manifestId |-> "none", note |-> "none",
           score |-> 0]
NoOracle == [typical |-> Raise, left |-> 0, calls |-> 0, seed |-> 0, log |-> <<>>]
NoGot == [run |-> "none", http |-> 0, data |-> Nil]
NoPure == [fn |-> "none"]

\* raise HTTPException(code), or an uncaught exception (500)
Raised(code) == [NoResp EXCEPT !.http = code]

-----------------------------------------------------------------------------
(* routes.py: compile_endpoint, one action per step of the handler *)

Gear == gearProfiles[body.mode]

\* the lower bound of random.randint(1, 1_000_000_000)
RandomLow == 1

\* line 62: seed = body.seed or random.randint(...), r the number drawn
BaseSeed(b, r) == IF b.seed = Nil \/ b.seed = JNum(0) THEN r ELSE b.seed.v

\* line 102: gear["temps"][min(i, len(gear["temps"])-1)], i counted from 0
Temperature(gear, i) == gear.temps[Min(i, Len(gear.temps) - 1) + 1]

\* lines 59-97 for request b: gear lookup, seed, run id, snapshot, prompt
Begin(b, typical, r) ==
    /\ body' = b
    /\ oracle' = [typical |-> typical, left |-> MaxDeviations, calls |-> 0,
                  seed |-> BaseSeed(b, r), log |-> <<>>]
    /\ pc' = "committee"
    /\ UNCHANGED <<fs, cands, judge, doc, arts, resp, got, fb, pure>>

CompileBegin ==
    /\ pc = "idle"
    /\ \E b \in Bodies, typical \in OracleResponses : Begin(b, typical, RandomLow)

\* lines 101-109, one turn of the loop: the call, the score, the append
OracleCall ==
    /\ pc = "committee"
    /\ \E r \in OracleResponses :
          /\ r = oracle.typical \/ oracle.left > 0
          /\ oracle' = [oracle EXCEPT
                           !.left = IF r = oracle.typical THEN @ ELSE @ - 1,
                           !.calls = @ + 1,
                           !.log = Append(@, [seed |-> oracle.seed + oracle.calls,
                                              temperature |->
                                                  Temperature(Gear, oracle.calls)])]
          /\ IF r.kind = "raise" \/ ~CanScore(LlmJson(r), body.mode)
             THEN /\ pc' = "failed"
                  /\ resp' = Raised(500)
                  /\ cands' = cands
             ELSE /\ cands' = Append(cands,
                                     Candidate(Len(cands) + 1, LlmJson(r), body.mode))
                  /\ pc' = IF Len(cands) + 1 = Gear.k THEN "judge" ELSE "committee"
                  /\ resp' = resp
    /\ UNCHANGED <<fs, body, judge, doc, arts, got, fb, pure>>

\* lines 110-118: sort, winner, citation count, triangulation
JudgeStep ==
    /\ pc = "judge"
    /\ IF CanJudge(SortDesc(cands), Gear)
       THEN /\ cands' = SortDesc(cands)
            /\ judge' = Judge(SortDesc(cands), Gear)
            /\ pc' = "build"
            /\ resp' = resp
       ELSE /\ pc' = "failed"
            /\ resp' = Raised(500)
            /\ UNCHANGED <<cands, judge>>
    /\ UNCHANGED <<fs, body, doc, arts, oracle, got, fb, pure>>

\* lines 121-134: the Doc from the winner, or HTTP 422
BuildStep ==
    /\ pc = "build"
    /\ IF BuildDoc(judge.winner.json).ok
       THEN /\ doc' = BuildDoc(judge.winner.json).doc
            /\ pc' = "render"
            /\ resp' = resp
       ELSE /\ pc' = "failed"
            /\ resp' = Raised(422)
            /\ doc' = doc
    /\ UNCHANGED <<fs, body, cands, judge, arts, oracle, got, fb, pure>>

\* add_art(kind, path): read the file back, size and digest, primary flag
add_art(store, artifacts, kind, primary) ==
    Append(artifacts,
           [kind |-> kind, path |-> <<TheRun, "artifact." \o kind>>,
            bytes |-> store[TheRun].files["artifact." \o kind].len,
            sha256 |-> Sha256(store[TheRun].files["artifact." \o kind].data),
            primary |-> (kind = primary)])

Renderable == {"pptx", "docx", "xlsx", "pdf", "html"}

\* lines 137-184: run dir, render the primary, validate it, add_art; the
\* validators accept what the renderers write
RenderPrimary ==
    /\ pc = "render"
    /\ LET primary == body.artifact.primary
           made == ensure_dir(fs, TheRun)
       IN  IF primary \in Renderable /\ CanRender(primary, doc)
           THEN /\ fs' = WriteArtifact(made, TheRun, primary, doc)
                /\ arts' = [arts EXCEPT
                               !.produced = Append(@, primary),
                               !.artifacts = add_art(fs', @, primary, primary)]
                /\ pc' = "secondaries"
                /\ resp' = resp
           ELSE /\ fs' = made
                /\ pc' = "failed"
                /\ resp' = Raised(IF primary \in Renderable THEN 500 ELSE 400)
                /\ arts' = arts
    /\ UNCHANGED <<body, cands, judge, doc, oracle, got, fb, pure>>

RenderedSecondaries == {"pdf", "docx", "xlsx"}

\* lines 187-205, one turn of the loop over secondaries
RenderSecondary ==
    /\ pc = "secondaries"
    /\ arts.next <= Len(body.artifact.secondaries)
    /\ LET s == body.artifact.secondaries[arts.next]
       IN  IF s \notin RenderedSecondaries
           THEN /\ arts' = [arts EXCEPT !.next = @ + 1]
                /\ UNCHANGED <<fs, pc, resp>>
           ELSE IF CanRender(s, doc)
           THEN /\ fs' = WriteArtifact(fs, TheRun, s, doc)
                /\ arts' = [arts EXCEPT
                               !.next = @ + 1,
                               !.produced = Append(@, s),
                               !.artifacts = add_art(fs', @, s, body.artifact.primary)]
                /\ UNCHANGED <<pc, resp>>
           ELSE /\ pc' = "failed"
                /\ resp' = Raised(500)
                /\ UNCHANGED <<fs, arts>>
    /\ UNCHANGED <<body, cands, judge, doc, oracle, got, fb, pure>>

ProofGateResult ==
    proof_gate(judge.rubric_score, GearGet(Gear, "minCites", DefaultMinCites),
               judge.cites_count, judge.triangulated)

\* lines 208-221: format gate, then the evidence gate and its early return
Gates ==
    /\ pc = "secondaries"
    /\ arts.next > Len(body.artifact.secondaries)
    /\ IF ~format_fidelity(body.artifact.primary, arts.produced)[1]
       THEN /\ pc' = "failed"
            /\ resp' = Raised(422)
       ELSE IF GearGet(Gear, "proofGate", FALSE) /\ ~ProofGateResult[1]
       THEN /\ pc' = "done"
            /\ resp' = [http |-> 200, status |-> "INSUFFICIENT_CONTEXT",
                        manifestId |-> TheRun, note |-> ProofGateResult[2],
                        score |-> judge.rubric_score]
       ELSE /\ pc' = "persist"
            /\ resp' = resp
    /\ UNCHANGED <<fs, body, cands, judge, doc, arts, oracle, got, fb, pure>>

CommitteeSummary(cs) == [i \in 1..Len(cs) |-> [id |-> cs[i].id, score |-> cs[i].score]]

\* the judge field of the manifest
ManifestJudge(j) == [winnerId |-> j.winner.id, score |-> j.rubric_score]

\* lines 232-244: RunManifest(...).model_dump()
ManifestOf(b, cs, j, d, artifacts) ==
    [id |-> TheRun,
     createdAt |-> "now",
     request |-> b,
     engine |-> [gear |-> b.mode],
     retrieval |-> [snapshot |-> <<>>],
     committee |-> CommitteeSummary(cs),
     judge |-> ManifestJudge(j),
     docAst |-> model_dump(d),
     artifacts |-> artifacts,
     timings |-> "totalMs",
     status |-> "completed"]

RunManifest == ManifestOf(body, cands, judge, doc, arts.artifacts)

\* lines 224-246: ledger, manifest, write_json
Persist ==
    /\ pc = "persist"
    /\ fs' = write_json(fs, TheRun, "manifest.json", RunManifest)
    /\ pc' = "respond"
    /\ UNCHANGED <<body, cands, judge, doc, arts, resp, oracle, got, fb, pure>>

\* lines 249-262: followups and the OK response
Respond ==
    /\ pc = "respond"
    /\ resp' = [http |-> 200, status |-> "OK", manifestId |-> TheRun,
                note |-> "winner by evidence", score |-> judge.rubric_score]
    /\ pc' = "done"
    /\ UNCHANGED <<fs, body, cands, judge, doc, arts, oracle, got, fb, pure>>

\* routes.py get_run, issued once the compile call has answered
GetRun ==
    /\ pc \in {"done", "failed"}
    /\ \E run \in RunIds :
          got' = IF ~Exists(fs, run, "manifest.json")
                 THEN [run |-> run, http |-> 404, data |-> Nil]
                 ELSE IF ~CanReadJson(fs, run, "manifest.json")
                 THEN [run |-> run, http |-> 500, data |-> Nil]
                 ELSE [run |-> run, http |-> 200,
                       data |-> read_json(fs, run, "manifest.json")]
    /\ UNCHANGED <<fs, pc, body, cands, judge, doc, arts, resp, oracle, fb, pure>>

NoStore == [r \in RunIds |-> NoDir]

\* nothing compiled yet, no call in flight
Idle ==
    /\ fs = NoStore
    /\ pc = "idle"
    /\ body = NoBody
    /\ cands = <<>>
    /\ judge = NoJudge
    /\ doc = NoDoc
    /\ arts = NoArts
    /\ resp = NoResp
    /\ oracle = NoOracle
    /\ got = NoGot
    /\ fb = <<>>

Init == Idle /\ pure = NoPure

Next ==
    \/ CompileBegin
    \/ OracleCall
    \/ JudgeStep
    \/ BuildStep
    \/ RenderPrimary
    \/ RenderSecondary
    \/ Gates
    \/ Persist
    \/ Respond
    \/ GetRun

Spec == Init /\ [][Next]_vars

-----------------------------------------------------------------------------
(* The compile call over requests with and without a seed, the drawn       *)
(* number varying: the committee loop and what follows it up to the answer. *)

\* no seed, a seed of 0, a seed
SeedValues == {Nil, JNum(0), JNum(7)}
RandomInts == {RandomLow, RandomLow + 1}

SeededBodies ==
    [mode : Modes, seed : SeedValues,
     artifact : [primary : {"html"}, secondaries : {<<>>, <<"pdf">>}]]

SeededBegin ==
    /\ pc = "idle"
    /\ \E b \in SeededBodies, typical \in OracleResponses, r \in RandomInts :
          Begin(b, typical, r)

NextCommittee ==
    \/ SeededBegin
    \/ OracleCall
    \/ JudgeStep
    \/ BuildStep
    \/ RenderPrimary
    \/ RenderSecondary
    \/ Gates
    \/ Persist
    \/ Respond

SpecCommittee == Init /\ [][NextCommittee]_vars

-----------------------------------------------------------------------------
(* The evidence gate as a function: every score, citation count,            *)
(* triangulation flag and thresholds of a profile.                          *)

\* the rubricMin values a profile may state, in tenths
RubricMins == {7, 8, 9}
MinCitesValues == {DefaultMinCites, gearProfiles["proof"].minCites}

GateInputs ==
    [fn : {"gate"}, rubric_score : 0..10, cites_count : 0..MaxCites,
     triangulated : BOOLEAN, minCites : MinCitesValues, rubricMin : RubricMins,
     done : {FALSE}, result : {<<FALSE, "none">>}]

InitGate ==
    /\ Idle
    /\ pure \in GateInputs

\* routes.py lines 212-213 with the profile's fields as the arguments
CallProofGate ==
    /\ pure.fn = "gate"
    /\ ~pure.done
    /\ pure' = [pure EXCEPT
                   !.done = TRUE,
                   !.result = proof_gate(pure.rubric_score, pure.minCites,
                                         pure.cites_count, pure.triangulated)]
    /\ UNCHANGED <<fs, pc, body, cands, judge, doc, arts, resp, oracle, got, fb>>

NextGate == CallProofGate

SpecGate == InitGate /\ [][NextGate]_vars

-----------------------------------------------------------------------------
(* The score heuristic as a function of one candidate and the mode *)

\* longest sections list of the pure-function inputs
MaxSections == 3

SectionsValues ==
    {JList([i \in 1..n |-> Sec("s", "Intro", <<"one">>)]) : n \in 0..MaxSections}
        \cup {JStr(<<"one", " ", "two">>)}

ScoreCandidates ==
    {JObj([sections |-> sv, citations |-> Cites(n)]) :
        sv \in SectionsValues, n \in 0..MaxCites}
    \cup {JObj([sections |-> sv]) : sv \in SectionsValues}
    \cup {JObj([citations |-> Cites(n)]) : n \in 0..MaxCites}
    \cup {JObj(NoFields), ToolErrorJson}

InitScore ==
    /\ Idle
    /\ pure \in [fn : {"score"}, mode : Modes, json : ScoreCandidates,
                 done : {FALSE}, cand : {NoCandidate}]

\* routes.py lines 104-109 for one candidate
ScoreCandidate ==
    /\ pure.fn = "score"
    /\ ~pure.done
    /\ CanScore(pure.json, pure.mode)
    /\ pure' = [pure EXCEPT !.done = TRUE,
                            !.cand = Candidate(1, pure.json, pure.mode)]
    /\ UNCHANGED <<fs, pc, body, cands, judge, doc, arts, resp, oracle, got, fb>>

NextScore == ScoreCandidate

SpecScore == InitScore /\ [][NextScore]_vars

-----------------------------------------------------------------------------
(* The judge as a function of the committee's outputs *)

\* candidate outputs scoring 0, 0.5, 0.5 + 0.1 n under proof
JudgeOutputs ==
    {JObj(NoFields),
     JObj([sections |-> TwoSections]),
     JObj([citations |-> Cites(3)]),
     JObj([sections |-> TwoSections, citations |-> Cites(3)]),
     JObj([sections |-> TwoSections, citations |-> Cites(5)])}

Committees == SeqsUpTo(JudgeOutputs, MaxCommittee) \ {<<>>}

InitJudge ==
    /\ Idle
    /\ pure \in [fn : {"judge"}, mode : Modes, outputs : Committees,
                 done : {FALSE}, sorted : {<<>>}, judge : {NoJudge},
                 recorded : {ManifestJudge(NoJudge)}]

\* routes.py lines 101-118 and 238-239 on given oracle outputs
JudgeCommittee ==
    /\ pure.fn = "judge"
    /\ ~pure.done
    /\ LET generated == [i \in 1..Len(pure.outputs) |->
                            Candidate(i, pure.outputs[i], pure.mode)]
           sorted == SortDesc(generated)
           j == Judge(sorted, gearProfiles[pure.mode])
       IN  pure' = [pure EXCEPT !.done = TRUE, !.sorted = sorted, !.judge = j,
                                !.recorded = ManifestJudge(j)]
    /\ UNCHANGED <<fs, pc, body, cands, judge, doc, arts, resp, oracle, got, fb>>

NextJudge == JudgeCommittee

SpecJudge == InitJudge /\ [][NextJudge]_vars

-----------------------------------------------------------------------------
(* routes.py: feedback, the calls of several callers interleaved.  Each      *)
(* caller issues one call; a step is one storage operation of the handler   *)
(* with the local computation that precedes it.                             *)

\* concurrent feedback callers
MaxCallers == 2
Callers == 1..MaxCallers

FeedbackOps ==
    {JObj([op |-> T("remove"), target |-> T("INTRO")]),
     JObj([op |-> T("focus"), topic |-> T("risk")]),
     JObj([op |-> T("rewrite"), target |-> T("tone"), to |-> T("formal")]),
     JObj([op |-> T("rewrite"), target |-> T("length"), to |-> T("short")]),
     JObj([op |-> T("limit"), section |-> T("intro"), max_words |-> JNum(2)]),
     JObj([op |-> T("shout")]),
     JObj([op |-> T("remove"), target |-> JNum(5)])}

Payloads == SeqsUpTo(FeedbackOps, MaxOps)

NoCall == [pc |-> "idle", run |-> "none", ops |-> <<>>, manifest |-> Nil,
           new_doc |-> NoDoc, http |-> 0]

\* The store and the compile call after a turbo compile of Strong with an
\* html primary has answered OK
Body0 == [mode |-> "turbo", seed |-> Nil,
          artifact |-> [primary |-> "html", secondaries |-> <<>>]]
Cands0 == SortDesc(<<Candidate(1, LlmJson(Strong), Body0.mode)>>)
Judge0 == Judge(Cands0, gearProfiles[Body0.mode])
Doc0 == BuildDoc(Judge0.winner.json).doc
Rendered0 == WriteArtifact(ensure_dir(NoStore, TheRun), TheRun, "html", Doc0)
Arts0 == [produced |-> <<"html">>,
          artifacts |-> add_art(Rendered0, <<>>, "html", "html"), next |-> 1]
Manifest0 == ManifestOf(Body0, Cands0, Judge0, Doc0, Arts0.artifacts)
Store0 == write_json(Rendered0, TheRun, "manifest.json", Manifest0)

Compiled ==
    /\ fs = Store0
    /\ pc = "done"
    /\ body = Body0
    /\ cands = Cands0
    /\ judge = Judge0
    /\ doc = Doc0
    /\ arts = Arts0
    /\ resp = [http |-> 200, status |-> "OK", manifestId |-> TheRun,
               note |-> "winner by evidence", score |-> Judge0.rubric_score]
    /\ oracle = [typical |-> Strong, left |-> MaxDeviations, calls |-> 1,
                 seed |-> RandomLow,
                 log |-> <<[seed |-> RandomLow,
                            temperature |-> Temperature(gearProfiles[Body0.mode], 0)]>>]

InitFeedback ==
    /\ Compiled
    /\ got = NoGot
    /\ fb = [c \in Callers |-> NoCall]
    /\ pure = NoPure

FbFrame == UNCHANGED <<pc, body, cands, judge, doc, arts, resp, oracle, got, pure>>

\* lines 280-281: the call arrives, the path is looked up
FbBegin(c) ==
    /\ fb[c].pc = "idle"
    /\ \E run \in RunIds, ops \in Payloads :
          fb' = [fb EXCEPT ![c] =
                    IF Exists(fs, run, "manifest.json")
                    THEN [@ EXCEPT !.pc = "read", !.run = run, !.ops = ops]
                    ELSE [@ EXCEPT !.pc = "done", !.run = run, !.ops = ops,
                                   !.http = 404]]
    /\ UNCHANGED fs
    /\ FbFrame

\* what lines 282-285 compute from the file: [ok, manifest, new_doc]
FbEdit(store, run, ops) ==
    IF ~CanReadJson(store, run, "manifest.json")
          \/ ~CanValidateDoc(read_json(store, run, "manifest.json").docAst)
    THEN [ok |-> FALSE, manifest |-> Nil, new_doc |-> NoDoc]
    ELSE LET manifest == read_json(store, run, "manifest.json")
             edited == apply_edit_ops(DocModel(manifest.docAst), ops)
         IN  [ok |-> edited.ok,
              manifest |-> IF edited.ok THEN manifest ELSE Nil,
              new_doc |-> edited.doc]

\* lines 282-285: read_json, Doc.model_validate, apply_edit_ops
FbRead(c) ==
    /\ fb[c].pc = "read"
    /\ LET r == FbEdit(fs, fb[c].run, fb[c].ops)
       IN  fb' = [fb EXCEPT ![c] =
                     IF r.ok
                     THEN [@ EXCEPT !.pc = "render", !.manifest = r.manifest,
                                    !.new_doc = r.new_doc]
                     ELSE [@ EXCEPT !.pc = "done", !.http = 500]]
    /\ UNCHANGED fs
    /\ FbFrame

\* lines 287-300: the primary artifact rendered again from new_doc
FbRender(c) ==
    /\ fb[c].pc = "render"
    /\ LET primary == fb[c].manifest.request.artifact.primary
       IN  IF primary \in Renderable /\ ~CanRender(primary, fb[c].new_doc)
           THEN /\ fb' = [fb EXCEPT ![c].pc = "done", ![c].http = 500]
                /\ fs' = fs
           ELSE /\ fb' = [fb EXCEPT ![c].pc = "open"]
                /\ fs' = IF primary \in Renderable
                         THEN WriteArtifact(fs, fb[c].run, primary, fb[c].new_doc)
                         ELSE fs
    /\ FbFrame

\* the update that also marks the record as edited
UpdatedAndMarked(call) ==
    [call.manifest EXCEPT !.docAst = model_dump(call.new_doc), !.status = "edited"]

\* line 302: manifest["docAst"] = new_doc.model_dump()
Updated(call) == [call.manifest EXCEPT !.docAst = model_dump(call.new_doc)]

\* line 303, write_json up to open(path, "w")
FbOpen(c) ==
    /\ fb[c].pc = "open"
    /\ fs' = OpenTrunc(ensure_dir(fs, fb[c].run), fb[c].run, "manifest.json")
    /\ fb' = [fb EXCEPT ![c].pc = "flush"]
    /\ FbFrame

\* line 303, json.dump and the close of write_json; line 304
FbFlush(c) ==
    /\ fb[c].pc = "flush"
    /\ fs' = FlushClose(fs, fb[c].run, "manifest.json", Updated(fb[c]),
                        ManifestLen(Updated(fb[c])))
    /\ fb' = [fb EXCEPT ![c].pc = "done", ![c].http = 200]
    /\ FbFrame

NextFeedback ==
    \E c \in Callers :
        \/ FbBegin(c)
        \/ FbRead(c)
        \/ FbRender(c)
        \/ FbOpen(c)
        \/ FbFlush(c)

SpecFeedback == InitFeedback /\ [][NextFeedback]_vars

-----------------------------------------------------------------------------
(* routes.py: feedback, one call at a time.  A caller's call arrives only    *)
(* when no other call is in flight, so that each call reads what the        *)
(* compile call or an earlier feedback call has persisted.                  *)

\* the payloads of the calls made in turn: no op, or one op
OneOpPayloads == {<<>>} \cup {<<op>> : op \in FeedbackOps}

InFlight(c) == fb[c].pc \notin {"idle", "done"}

\* lines 277-281, the call arriving while the handler is not running
FbBeginAlone(c) ==
    /\ \A d \in Callers : ~InFlight(d)
    /\ \A d \in Callers : d < c => fb[d].pc = "done"
    /\ fb[c].pc = "idle"
    /\ \E run \in RunIds, ops \in OneOpPayloads :
          fb' = [fb EXCEPT ![c] =
                    IF Exists(fs, run, "manifest.json")
                    THEN [@ EXCEPT !.pc = "read", !.run = run, !.ops = ops]
                    ELSE [@ EXCEPT !.pc = "done", !.run = run, !.ops = ops,
                                   !.http = 404]]
    /\ UNCHANGED fs
    /\ FbFrame

NextFeedbackSeq ==
    \E c \in Callers :
        \/ FbBeginAlone(c)
        \/ FbRead(c)
        \/ FbRender(c)
        \/ FbOpen(c)
        \/ FbFlush(c)

SpecFeedbackSeq == InitFeedback /\ [][NextFeedbackSeq]_vars

-----------------------------------------------------------------------------
(* apply_edit_ops as a function of a document and an op list, on the heap   *)
(* and by value, followed by a later edit of the returned document.         *)

\* longest op list of the pure-function inputs
MaxEditOps == 2

Para(toks) == [kind |-> "para", text |-> toks, claims |-> JNull]
Bullets(items) == [kind |-> "list", items |-> items]

EditDocs ==
    {[title |-> <<"Report">>, sections |-> <<>>],
     [title |-> <<"Report">>,
      sections |-> <<[id |-> <<"s1">>, heading |-> <<"Intro">>,
                      blocks |-> <<Para(<<"one", "  ", "two", " ", "three">>),
                                   Bullets(<<<<"a", " ", "b", " ", "c">>>>)>>],
                     [id |-> <<"s2">>, heading |-> <<"Body">>,
                      blocks |-> <<Para(<<"four">>)>>]>>],
     [title |-> <<"Plan">>,
      sections |-> <<[id |-> <<"s1">>, heading |-> <<"INTRO">>,
                      blocks |-> <<Para(<<"one", " ", "two">>)>>],
                     [id |-> <<"s2">>, heading |-> <<"Body">>,
                      blocks |-> <<Para(<<"one", " ", "two", " ", "three", " ",
                                          "four", " ", "five">>)>>],
                     [id |-> <<"s3">>, heading |-> <<"Intro">>,
                      blocks |-> <<Para(<<"one", " ", "two", " ", "three">>),
                                   Para(<<"six">>)>>]>>]}

EditOps ==
    {JObj([op |-> T("remove"), target |-> T("INTRO")]),
     JObj([op |-> T("remove"), target |-> T("Body")]),
     JObj([op |-> T("focus"), topic |-> T("risk")]),
     JObj([op |-> T("rewrite"), target |-> T("tone"), to |-> T("formal")]),
     JObj([op |-> T("rewrite"), target |-> T("length"), to |-> T("short")]),
     JObj([op |-> T("limit"), section |-> T("Intro"), max_words |-> JNum(2)]),
     JObj([op |-> T("limit"), section |-> T("intro"), max_words |-> T("1")]),
     JObj([op |-> T("limit"), section |-> T("body")]),
     JObj([op |-> T("limit"), section |-> T("body"), max_words |-> JNum(3)]),
     JObj([op |-> T("limit"), section |-> T("intro"), max_words |-> JNum(0 - 1)]),
     JObj([op |-> T("shout")]),
     JObj(NoFields),
     JObj([op |-> T("remove"), target |-> JNum(5)]),
     JObj([op |-> T("limit"), section |-> T("intro"), max_words |-> JNull])}

EditOpLists == SeqsUpTo(EditOps, MaxEditOps)

\* ops that change a document in place
LaterOps ==
    {JObj([op |-> T("focus"), topic |-> T("later")]),
     JObj([op |-> T("limit"), section |-> T("intro"), max_words |-> JNum(1)]),
     JObj([op |-> T("limit"), section |-> T("body"), max_words |-> JNum(0)]),
     JObj([op |-> T("rewrite"), target |-> T("tone"), to |-> T("later")])}

ApplyInput(d, ops) ==
    [fn |-> "apply", stage |-> "input", doc |-> d, ops |-> ops,
     heap0 |-> NewDoc(<<>>, d).h, ref0 |-> NewDoc(<<>>, d).ref,
     ok |-> FALSE, heap1 |-> <<>>, ref1 |-> 0, result |-> [ok |-> FALSE, doc |-> NoDoc],
     heap2 |-> <<>>]

InitApply ==
    /\ Idle
    /\ pure \in {ApplyInput(d, ops) : d \in EditDocs, ops \in EditOpLists}

\* new_doc = apply_edit_ops(doc, ops), routes.py line 285
ApplyEdits ==
    /\ pure.fn = "apply"
    /\ pure.stage = "input"
    /\ LET r == apply_edit_ops_heap(pure.heap0, pure.ref0, pure.ops)
       IN  pure' = [pure EXCEPT !.stage = "applied", !.ok = r.ok, !.heap1 = r.h,
                                !.ref1 = r.ref,
                                !.result = apply_edit_ops(pure.doc, pure.ops)]
    /\ UNCHANGED <<fs, pc, body, cands, judge, doc, arts, resp, oracle, got, fb>>

\* the caller goes on editing the document it was returned, in place
LaterEdit ==
    /\ pure.fn = "apply"
    /\ pure.stage = "applied"
    /\ pure.ok
    /\ \E op \in LaterOps :
          pure' = [pure EXCEPT
                      !.stage = "edited",
                      !.heap2 = HeapApplyOp(pure.heap1, pure.ref1, op)]
    /\ UNCHANGED <<fs, pc, body, cands, judge, doc, arts, resp, oracle, got, fb>>

NextApply == ApplyEdits \/ LaterEdit

SpecApply == InitApply /\ [][NextApply]_vars

-----------------------------------------------------------------------------
(* The retrieval snapshot as a function of what the corpus delivers: the    *)
(* sources 1..n in any order, under each gear's ragTopK.                    *)

\* largest source set of the retrieval inputs
MaxSources == 7

\* titles repeat, and their order is not that of the ids
Source(i) == [id |-> i, title |-> i % 3, body |-> i]

\* the corpus holds sources 1..corpus; col.get() has delivered none yet
InitSnapshot ==
    /\ Idle
    /\ pure \in [fn : {"snapshot"}, mode : Modes, corpus : 0..MaxSources,
                 delivered : {<<>>}, done : {FALSE}, docs : {<<>>},
                 snapshot : {<<>>}]

Delivered(i) == \E n \in 1..Len(pure.delivered) : pure.delivered[n].id = i

\* retrieval.py line 27: col.get() delivers the documents of the collection
\* in an order of its own; one document per step
ColGet ==
    /\ pure.fn = "snapshot"
    /\ ~pure.done
    /\ \E i \in 1..pure.corpus :
          /\ ~Delivered(i)
          /\ pure' = [pure EXCEPT !.delivered = Append(@, Source(i))]
    /\ UNCHANGED <<fs, pc, body, cands, judge, doc, arts, resp, oracle, got, fb>>

\* routes.py lines 70-71
Retrieve ==
    /\ pure.fn = "snapshot"
    /\ ~pure.done
    /\ Len(pure.delivered) = pure.corpus
    /\ LET topK == GearGet(gearProfiles[pure.mode], "ragTopK", 6)
           docs == load_from_chromadb(pure.delivered, topK)
       IN  pure' = [pure EXCEPT !.done = TRUE, !.docs = docs,
                                !.snapshot = deterministic_snapshot(docs, topK)]
    /\ UNCHANGED <<fs, pc, body, cands, judge, doc, arts, resp, oracle, got, fb>>

NextSnapshot == ColGet \/ Retrieve

SpecSnapshot == InitSnapshot /\ [][NextSnapshot]_vars

-----------------------------------------------------------------------------
(* The normalizer as a function of one oracle output: the transformation,   *)
(* the repair and the validation of routes.py step 4.                       *)

\* longest sections list, and longest blocks list, of the normalizer inputs
MaxDocSections == 2
MaxBlocks == 2

\* a dict of the fields of f whose value is not Nil
Fields(f) == JObj([k \in {x \in DOMAIN f : f[x] /= Nil} |-> f[k]])

Rows(word) == JList(<<JList(<<T(word)>>)>>)

\* blocks by type, each with or without content and with or without the
\* field of its own
BlockInputs ==
    {Fields([type |-> T("text"), content |-> c, text |-> x]) :
        c \in {Nil, T("hello")}, x \in {Nil, T("alt")}}
    \cup {Fields([type |-> T("list"), content |-> c, items |-> x]) :
        c \in {Nil, StrsJson(<<<<"c">>>>)}, x \in {Nil, StrsJson(<<<<"a">>, <<"b">>>>)}}
    \cup {Fields([type |-> T("table"), content |-> c, rows |-> x]) :
        c \in {Nil, Rows("c")}, x \in {Nil, Rows("r")}}
    \cup {Fields([type |-> T("chart"), content |-> c, spec |-> x]) :
        c \in {Nil, JObj([bar |-> JNum(1)])}, x \in {Nil, JObj([line |-> JNum(2)])}}
    \cup {Fields([type |-> ty, content |-> c, text |-> x]) :
        ty \in {Nil, T("quote")}, c \in {Nil, T("hello"), JNum(5)},
        x \in {Nil, T("alt")}}

\* sections with or without id, heading and blocks
SectionShapes ==
    {Fields([id |-> i, heading |-> hd, blocks |-> b]) :
        i \in {Nil, T("s1"), T("s2")}, hd \in {Nil, T("Intro")},
        b \in {Nil, JList(<<TextBlock(<<"one">>)>>)}}

BlockSections ==
    {JObj([id |-> T("s1"), heading |-> T("Intro"), blocks |-> JList(bs)]) :
        bs \in SeqsUpTo(BlockInputs, MaxBlocks)}

NormalizeInputs ==
    {Fields([title |-> ti, sections |-> ss]) :
        ti \in {Nil, T("Report")},
        ss \in {Nil, T("oops"), JObj([s1 |-> T("Intro")])}
               \cup {JList(q) : q \in SeqsUpTo(SectionShapes, MaxDocSections)}}
    \cup {JObj([title |-> T("Report"), sections |-> JList(<<s>>)]) :
             s \in BlockSections}

InitNormalize ==
    /\ Idle
    /\ pure \in [fn : {"normalize"}, json : NormalizeInputs, done : {FALSE},
                 transformed : {JNull}, built : {[ok |-> FALSE, doc |-> NoDoc]}]

\* routes.py lines 121-134 on one winner
Normalize ==
    /\ pure.fn = "normalize"
    /\ ~pure.done
    /\ pure' = [pure EXCEPT !.done = TRUE,
                            !.transformed = transform_ai_output_to_schema(pure.json),
                            !.built = BuildDoc(pure.json)]
    /\ UNCHANGED <<fs, pc, body, cands, judge, doc, arts, resp, oracle, got, fb>>

NextNormalize == Normalize

SpecNormalize == InitNormalize /\ [][NextNormalize]_vars

-----------------------------------------------------------------------------
(* Properties of the compile call (Spec) *)

GateFailed == pc = "done" /\ resp.status = "INSUFFICIENT_CONTEXT"
Answered == pc = "done" /\ resp.status \in {"OK", "INSUFFICIENT_CONTEXT"}

C2_ManifestForEveryOutcome ==
    Answered =>
        /\ CanReadJson(fs, resp.manifestId, "manifest.json")
        /\ read_json(fs, resp.manifestId, "manifest.json").id = resp.manifestId
        /\ got.run = resp.manifestId => got.http = 200

PrimaryEntries(m) == {i \in 1..Len(m.artifacts) : m.artifacts[i].primary}

\* C3: in every persisted manifest exactly one artifact entry has
\* primary = true, and its kind is the requested primary kind.
C3_OnePrimaryArtifact ==
    \A run \in RunIds :
        CanReadJson(fs, run, "manifest.json") =>
            LET m == read_json(fs, run, "manifest.json")
            IN  /\ Cardinality(PrimaryEntries(m)) = 1
                /\ \A i \in PrimaryEntries(m) :
                      m.artifacts[i].kind = m.request.artifact.primary

Statuses == {"OK", "INSUFFICIENT_CONTEXT", "POLICY_BLOCK", "TOOL_ERROR"}

\* C4: the status of every persisted manifest is one of the four terminal
\* statuses, and it is the status the compile call returned.
C4_ManifestStatus ==
    \A run \in RunIds :
        CanReadJson(fs, run, "manifest.json") =>
            /\ read_json(fs, run, "manifest.json").status \in Statuses
            /\ (pc = "done" /\ resp.manifestId = run) =>
                  read_json(fs, run, "manifest.json").status = resp.status

WinnerCites == PyLen(DictGet(cands[1].json, "citations", EmptyList))
\* at least two candidates, and the second-ranked one exposes two sections
TriangulationHeld ==
    /\ Len(cands) >= 2
    /\ PyLen(DictGet(cands[2].json, "sections", EmptyList)) >= 2

C7_CommitteeNeverAborts ==
    /\ pc /= "idle" => Len(cands) = oracle.calls
    /\ pc \notin {"idle", "committee"} => Len(cands) = gearProfiles[body.mode].k

-----------------------------------------------------------------------------
(* Properties of the gate, the score and the judge as functions *)

GateExpected(p) ==
    IF p.rubric_score < p.rubricMin THEN <<FALSE, "score_below_threshold">>
    ELSE IF p.cites_count < p.minCites THEN <<FALSE, "not_enough_evidence">>
    ELSE IF ~p.triangulated THEN <<FALSE, "no_dual_path_agreement">>
    ELSE <<TRUE, "ok">>

C8_WinnerIsEarliestMax ==
    (pure.fn = "judge" /\ pure.done) =>
        LET n == Len(pure.outputs)
            score(i) == Score(pure.outputs[i], pure.mode)
            w == pure.judge.winner.id
        IN  /\ w \in 1..n
            /\ Len(pure.sorted) = n
            /\ \A i \in 1..n : score(i) <= score(w)
            /\ \A i \in 1..n : score(i) = score(w) => w <= i
            /\ pure.recorded = [winnerId |-> w, score |-> score(w)]

\* scores 0.5, 0.8, 0.8: the second candidate wins
C8_Witness ==
    /\ pure.fn = "judge" /\ pure.done /\ Len(pure.outputs) = 3
    /\ [i \in 1..3 |-> Score(pure.outputs[i], pure.mode)] = <<5, 8, 8>>
    /\ pure.recorded.winnerId = 2

ExposesSections(j) ==
    /\ Has(j, "sections") /\ IsList(j.v["sections"])
    /\ Len(j.v["sections"].v) >= 2
CitationCount(j) == IF Has(j, "citations") THEN Len(j.v["citations"].v) ELSE 0

\* C9: a score is within [0, 1]; it is 0.5 for a list of two sections or
\* more, plus 0.1 per citation up to 0.5 when the mode has the evidence
\* gate; otherwise the citations add nothing.
C9_ScoreFormula ==
    (pure.fn = "score" /\ pure.done) =>
        /\ pure.cand.score \in 0..10
        /\ pure.cand.score =
              (IF ExposesSections(pure.json) THEN 5 ELSE 0)
              + (IF gearProfiles[pure.mode].proofGate
                 THEN Min(5, CitationCount(pure.json)) ELSE 0)

\* six citations under proof: capped at 0.5
C9_Witness ==
    /\ pure.fn = "score" /\ pure.done /\ pure.mode = "proof"
    /\ ExposesSections(pure.json) /\ CitationCount(pure.json) = 6
    /\ pure.cand.score = 10

-----------------------------------------------------------------------------
(* Properties of concurrent feedback (SpecFeedback) *)

AllAnswered == \A c \in Callers : fb[c].pc = "done"
Wrote(c) == fb[c].pc = "done" /\ fb[c].http = 200

\* the document caller c computes from the manifest it read
EditOf(c) ==
    model_dump(apply_edit_ops(DocModel(fb[c].manifest.docAst), fb[c].ops).doc)

\* C10: once the concurrent calls have answered, the persisted document is
\* the result of exactly one call's ops on the document that call read.
C10_LastWriterWins ==
    (AllAnswered /\ \E c \in Callers : Wrote(c)) =>
        /\ CanReadJson(fs, TheRun, "manifest.json")
        /\ \E c \in Callers :
              /\ Wrote(c)
              /\ read_json(fs, TheRun, "manifest.json").docAst = EditOf(c)

\* C10, the lost update: both calls read the manifest of the compile, both
\* answered OK, and the persisted document is the second call's alone.
C10_LostUpdate ==
    /\ Wrote(1) /\ Wrote(2)
    /\ fb[1].manifest = Manifest0 /\ fb[2].manifest = Manifest0
    /\ CanReadJson(fs, TheRun, "manifest.json")
    /\ read_json(fs, TheRun, "manifest.json").docAst = EditOf(2)
    /\ EditOf(1) /= Manifest0.docAst
    /\ EditOf(2) /= Manifest0.docAst
    /\ EditOf(2) /=
          model_dump(apply_edit_ops(DocModel(EditOf(1)), fb[2].ops).doc)

-----------------------------------------------------------------------------
(* Properties of the committee loop (SpecCommittee) *)

\* the seed and the temperature the spec gives the call of index i, from 0
ExpectedCall(i) ==
    [seed |-> oracle.seed + i,
     temperature |->
         LET temps == gearProfiles[body.mode].temps
         IN  IF i < Len(temps) THEN temps[i + 1] ELSE temps[Len(temps)]]

\* the format gate and the evidence gate have been evaluated
GatesEvaluated == pc \in {"persist", "respond", "done"}

\* C21: a compile call of a profile with candidateCount k issues exactly k
\* oracle calls, the call of index i (from 0) with seed base + i, base being
\* the seed of the request when it has one, and with temperature
\* temps[min(i, len(temps) - 1)]; no call is cancelled: a call that has
\* ended has issued all k, and all k were issued before any gate was
\* evaluated, the evidence gate rejecting the run or not.
C21_CommitteeCalls ==
    pc /= "idle" =>
        /\ body.seed \notin {Nil, JNum(0)} => oracle.seed = body.seed.v
        /\ Len(oracle.log) <= gearProfiles[body.mode].k
        /\ \A i \in 1..Len(oracle.log) : oracle.log[i] = ExpectedCall(i - 1)
        /\ GatesEvaluated => Len(oracle.log) = gearProfiles[body.mode].k
        /\ pc \in {"done", "failed"} => Len(oracle.log) = gearProfiles[body.mode].k

\* a mentor compile (k = 3) has ended with HTTP 500 after its first oracle
\* call raised: the two other calls were never issued
C21_CallsCancelled ==
    /\ pc = "failed" /\ body.mode = "mentor" /\ resp.http = 500
    /\ oracle.typical = Raise
    /\ Len(oracle.log) = 1 /\ cands = <<>>

-----------------------------------------------------------------------------
(* Properties of one feedback call (SpecFeedbackSeq) *)

ManifestFile(store, run) == store[run].files["manifest.json"]

\* the fields of a manifest other than the document
FrameFields(m) == DOMAIN m \ {"docAst"}

\* C11: a feedback call on an existing run reads the manifest once and
\* writes it once; what it writes is what it read with docAst replaced by
\* the edited document and every other field unchanged; a call on an
\* unknown run id answers not-found; a call that does not reach its write
\* leaves the manifest as it was.
C11_FeedbackFrame ==
    [][/\ \A c \in Callers :
         /\ (fb[c].pc = "flush" /\ fb'[c].pc = "done") =>
               LET read == fb[c].manifest
                   run == fb[c].run
               IN  /\ CanReadJson(fs', run, "manifest.json")
                   /\ DOMAIN read_json(fs', run, "manifest.json") = DOMAIN read
                   /\ \A f \in FrameFields(read) :
                         read_json(fs', run, "manifest.json")[f] = read[f]
                   /\ read_json(fs', run, "manifest.json").docAst
                         = model_dump(fb[c].new_doc)
                   /\ fb[c].new_doc
                         = apply_edit_ops(DocModel(read.docAst), fb[c].ops).doc
                   /\ fb'[c].http = 200
         /\ (fb[c].pc = "read" /\ fb'[c].pc = "render") =>
               fb'[c].manifest = read_json(fs, fb[c].run, "manifest.json")
         /\ (fb[c].pc = "idle" /\ fb'[c].pc /= "idle"
                /\ ~Exists(fs, fb'[c].run, "manifest.json")) =>
               (fb'[c].http = 404 /\ fb'[c].pc = "done" /\ fs' = fs)
         /\ fb[c].pc = "done" => fb'[c] = fb[c]
       /\ (\E run \in RunIds : ManifestFile(fs', run) /= ManifestFile(fs, run)) =>
             \E c \in Callers : fb[c].pc \in {"open", "flush"} /\ fb'[c] /= fb[c]
    ]_vars

\* the first call answered not-found for the unknown run, the second one
\* edited the compiled run: its document is persisted, the rest is as compiled
C11_Witness ==
    /\ fb[1].pc = "done" /\ fb[1].http = 404
    /\ fb[2].pc = "done" /\ fb[2].http = 200
    /\ CanReadJson(fs, TheRun, "manifest.json")
    /\ read_json(fs, TheRun, "manifest.json").docAst /= Manifest0.docAst
    /\ \A f \in FrameFields(Manifest0) :
          read_json(fs, TheRun, "manifest.json")[f] = Manifest0[f]

\* no feedback call is under way
Quiet == \A c \in Callers : ~InFlight(c)

PersistedManifest == read_json(fs, TheRun, "manifest.json")
PrimaryKind == PersistedManifest.request.artifact.primary
PrimaryFile == fs[TheRun].files["artifact." \o PrimaryKind]

\* the file is the rendering of the document the manifest holds
RenderingIsCurrent ==
    /\ PrimaryFile.st = "ok"
    /\ PrimaryFile.data = Render(PrimaryKind, DocModel(PersistedManifest.docAst))

\* the manifest's record of the primary artifact gives the file's size and hash
RecordIsCurrent ==
    /\ \E i \in 1..Len(PersistedManifest.artifacts) :
          PersistedManifest.artifacts[i].primary
    /\ \A i \in 1..Len(PersistedManifest.artifacts) :
          PersistedManifest.artifacts[i].primary =>
              /\ PersistedManifest.artifacts[i].kind = PrimaryKind
              /\ PersistedManifest.artifacts[i].bytes = PrimaryFile.len
              /\ PersistedManifest.artifacts[i].sha256 = Sha256(PrimaryFile.data)

\* C22: after a successful compile and any number of feedback calls made
\* one after the other on its run, the persisted manifest agrees with the
\* storage: the primary artifact file is the rendering of the manifest's
\* document, and the size and the hash the manifest records for it are
\* those of the file.
C22_ManifestMatchesStorage ==
    Quiet =>
        /\ CanReadJson(fs, TheRun, "manifest.json")
        /\ RenderingIsCurrent
        /\ RecordIsCurrent

\* one feedback call with a focus op has answered 200: the file is the new
\* rendering, the manifest still records the hash of the one it replaced
C22_StaleRecord ==
    /\ Quiet
    /\ \E c \in Callers :
          /\ fb[c].pc = "done" /\ fb[c].http = 200 /\ fb[c].run = TheRun
          /\ fb[c].ops = <<JObj([op |-> T("focus"), topic |-> T("risk")])>>
    /\ RenderingIsCurrent
    /\ PersistedManifest.artifacts[1].primary
    /\ PersistedManifest.artifacts[1].sha256 = Sha256(Render(PrimaryKind, Doc0))
    /\ PersistedManifest.artifacts[1].sha256 /= Sha256(PrimaryFile.data)

-----------------------------------------------------------------------------
(* Properties of apply_edit_ops as a function (SpecApply) *)

Applied == pure.fn = "apply" /\ pure.stage /= "input"

\* C12: apply_edit_ops is pure: once it has returned (or raised), every
\* object of the input document is as it was and the input still stands for
\* the same document; the returned document has no object in common with
\* the input, and a later edit in place of the returned document leaves the
\* input as it was.
C12_ApplyIsPure ==
    Applied =>
        /\ \A a \in 1..Len(pure.heap0) : pure.heap1[a] = pure.heap0[a]
        /\ DocAt(pure.heap1, pure.ref0) = pure.doc
        /\ pure.ok =>
              /\ Reach(pure.heap1, pure.ref0) \cap Reach(pure.heap1, pure.ref1) = {}
              /\ DocAt(pure.heap1, pure.ref1) = pure.result.doc
        /\ pure.stage = "edited" =>
              /\ \A a \in 1..Len(pure.heap0) : pure.heap2[a] = pure.heap0[a]
              /\ DocAt(pure.heap2, pure.ref0) = pure.doc

\* two ops changed the copy, a later edit changed the returned document again
C12_Witness ==
    /\ Applied /\ pure.ok /\ pure.stage = "edited"
    /\ Len(pure.ops) = 2
    /\ pure.doc.sections /= <<>>
    /\ DocAt(pure.heap1, pure.ref1) /= pure.doc
    /\ DocAt(pure.heap2, pure.ref1) /= DocAt(pure.heap1, pure.ref1)
    /\ DocAt(pure.heap2, pure.ref0) = pure.doc


KnownTags == {"remove", "focus", "rewrite", "limit"}

\* an op with an unknown (or no) tag, or a rewrite of anything but the tone
Ignored(op) ==
    \/ OpTag(op) \notin {T(tag) : tag \in KnownTags}
    \/ OpTag(op) = T("rewrite") /\ DictGet(op, "target", JNull) /= T("tone")

NotIgnored(op) == ~Ignored(op)

\* C17: ops with an unknown tag and rewrite ops with a target other than
\* "tone" change nothing and do not stop the batch: the result of an op
\* list is the result of the list without them, and a list of such ops
\* only returns the document as it was.
C17_IgnoredOps ==
    Applied =>
        /\ pure.result = apply_edit_ops(pure.doc, SelectSeq(pure.ops, NotIgnored))
        /\ (\A i \in 1..Len(pure.ops) : Ignored(pure.ops[i])) =>
              pure.result = [ok |-> TRUE, doc |-> pure.doc]

\* an ignored op first, then an op that changed the document
C17_Witness ==
    /\ Applied /\ Len(pure.ops) = 2
    /\ Ignored(pure.ops[1]) /\ ~Ignored(pure.ops[2])
    /\ pure.result.ok /\ pure.result.doc /= pure.doc
    /\ pure.result = apply_edit_ops(pure.doc, <<pure.ops[2]>>)

\* the one op of the list is a limit that does not raise
OneLimit ==
    /\ Applied /\ Len(pure.ops) = 1
    /\ OpTag(pure.ops[1]) = T("limit") /\ CanApplyOp(pure.ops[1])

LimitSectionArg == Lower(DictGet(pure.ops[1], "section", JStr(<<>>)).v)
LimitMaxWords == PyInt(DictGet(pure.ops[1], "max_words", JNum(DefaultMaxWords)))

\* block nb is block ob cut to its first max words
CutTo(ob, nb, max) ==
    IF ob.kind = "para"
    THEN /\ nb.kind = "para" /\ nb.claims = ob.claims
         /\ Len(Words(nb.text)) <= max
         /\ Words(nb.text) = SubSeq(Words(ob.text), 1, Min(max, Len(Words(ob.text))))
         /\ Len(Words(ob.text)) <= max => nb = ob
    ELSE nb = ob

\* C18: after limit{section, max_words}, max_words being 200 when absent,
\* every text block of every section whose heading matches section without
\* regard to case holds at most max_words words, the first max_words words
\* of its text in order, and is unchanged when already within the limit;
\* the other blocks, the headings, the ids and the title are unchanged.
C18_LimitTruncates ==
    OneLimit =>
        LET old == pure.doc
            new == pure.result.doc
        IN  /\ pure.result.ok
            /\ new.title = old.title
            /\ Len(new.sections) = Len(old.sections)
            /\ \A i \in 1..Len(old.sections) :
                  /\ new.sections[i].id = old.sections[i].id
                  /\ new.sections[i].heading = old.sections[i].heading
                  /\ Len(new.sections[i].blocks) = Len(old.sections[i].blocks)
                  /\ \A n \in 1..Len(old.sections[i].blocks) :
                        IF Lower(old.sections[i].heading) = LimitSectionArg
                        THEN CutTo(old.sections[i].blocks[n],
                                   new.sections[i].blocks[n], LimitMaxWords)
                        ELSE new.sections[i].blocks[n] = old.sections[i].blocks[n]

\* limit{section: "intro", max_words: -1} on "one  two three" leaves "one two"
C18_NegativeLimit ==
    /\ OneLimit /\ LimitMaxWords = 0 - 1 /\ pure.result.ok
    /\ \E i \in 1..Len(pure.doc.sections) :
          /\ Lower(pure.doc.sections[i].heading) = LimitSectionArg
          /\ pure.doc.sections[i].blocks[1].text = <<"one", "  ", "two", " ", "three">>
          /\ pure.result.doc.sections[i].blocks[1].text = <<"one", " ", "two">>

\* every op of the list is the same remove, and it does not raise
OnlyOneRemove ==
    /\ Applied /\ pure.ops /= <<>>
    /\ OpTag(pure.ops[1]) = T("remove") /\ CanApplyOp(pure.ops[1])
    /\ \A i \in 1..Len(pure.ops) : pure.ops[i] = pure.ops[1]

RemoveTargetArg == DictGet(pure.ops[1], "target", JStr(<<>>)).v

\* the sections whose heading is not target, case apart, in their order
Others(secs, target) ==
    LET Differs(sec) == Lower(sec.heading) /= Lower(target)
    IN  SelectSeq(secs, Differs)

\* C19: remove{target} leaves exactly the sections whose heading differs
\* from target without regard to case, in their order and unchanged, with
\* the title unchanged; applying the same remove again changes nothing.
C19_RemoveExactIdempotent ==
    OnlyOneRemove =>
        /\ pure.result.ok
        /\ pure.result.doc.title = pure.doc.title
        /\ pure.result.doc.sections = Others(pure.doc.sections, RemoveTargetArg)

\* the same remove twice, on a document where it removes two sections of
\* different case and keeps one
C19_Witness ==
    /\ OnlyOneRemove /\ Len(pure.ops) = 2
    /\ Len(pure.doc.sections) = 3
    /\ Len(pure.result.doc.sections) = 1
    /\ \E i, j \in 1..3 :
          /\ pure.doc.sections[i].heading /= pure.doc.sections[j].heading
          /\ Lower(pure.doc.sections[i].heading) = Lower(RemoveTargetArg)
          /\ Lower(pure.doc.sections[j].heading) = Lower(RemoveTargetArg)

-----------------------------------------------------------------------------
(* Properties of the compile call on an output that cannot be coerced (Spec) *)

PastBuild == pc \notin {"idle", "committee", "judge", "build"} /\ judge /= NoJudge

SectionsNotAList(j) == IsDict(j) /\ Has(j, "sections") /\ ~IsList(j.v["sections"])

\* C14: when the winner's sections field is present and not a list, the
\* compile call fails at the build step with the schema error (HTTP 422):
\* no Document, no artifact and no manifest come out of it.
C14_UncoercibleIsSchemaError ==
    (PastBuild /\ SectionsNotAList(judge.winner.json)) =>
        /\ pc = "failed" /\ resp.http = 422
        /\ doc = NoDoc
        /\ arts.artifacts = <<>>
        /\ \A n \in FileNames : ~Exists(fs, TheRun, n)

\* the call answered OK on such a winner: an empty Document was rendered and
\* persisted
C14_CoercedToEmpty ==
    /\ pc = "done" /\ resp.status = "OK"
    /\ SectionsNotAList(judge.winner.json)
    /\ doc = [title |-> <<"Report">>, sections |-> <<>>]
    /\ Len(arts.artifacts) >= 1
    /\ CanReadJson(fs, TheRun, "manifest.json")
    /\ read_json(fs, TheRun, "manifest.json").docAst = model_dump(doc)

-----------------------------------------------------------------------------
(* Properties of the normalizer (SpecNormalize) *)

Normalized == pure.fn = "normalize" /\ pure.done

\* the sections field is absent, or a list of dicts
OnlyAbsentFields(j) ==
    Has(j, "sections") =>
        /\ IsList(j.v["sections"])
        /\ \A i \in 1..Len(j.v["sections"].v) : IsDict(j.v["sections"].v[i])

\* C13: for an oracle output that lacks any of title, sections, or a
\* section's id, heading or blocks, normalization returns a Document; for
\* the empty output it is the Document titled "Generated Document" with no
\* section.
C13_NormalizerTotal ==
    (Normalized /\ OnlyAbsentFields(pure.json)) =>
        /\ pure.built.ok
        /\ pure.json = JObj(NoFields) =>
              pure.built.doc = [title |-> <<"Generated", " ", "Document">>,
                                sections |-> <<>>]

\* the empty output gives a Document, titled "Untitled Document"
C13_EmptyOutput ==
    /\ Normalized /\ pure.json = JObj(NoFields)
    /\ pure.built = [ok |-> TRUE,
                     doc |-> [title |-> <<"Untitled", " ", "Document">>,
                              sections |-> <<>>]]

UniqueIds(d) ==
    \A i, n \in 1..Len(d.sections) : i /= n => d.sections[i].id /= d.sections[n].id

\* C15: the Document built from any oracle output, sections that lack an id
\* or repeat one included, has pairwise distinct section ids.
C15_SectionIdsUnique ==
    (Normalized /\ pure.built.ok) => UniqueIds(pure.built.doc)

\* two sections without id: both get the empty id
C15_EmptyIdsTwice ==
    /\ Normalized /\ pure.built.ok
    /\ Has(pure.json, "sections") /\ IsList(pure.json.v["sections"])
    /\ Len(pure.json.v["sections"].v) = 2
    /\ \A i \in 1..2 : ~Has(pure.json.v["sections"].v[i], "id")
    /\ \A i \in 1..2 : pure.built.doc.sections[i].id = <<>>

\* the value of field first of block b, of field second when first is
\* absent, of default when both are
FirstOf(b, first, second, default) ==
    IF Has(b, first) THEN b.v[first]
    ELSE IF Has(b, second) THEN b.v[second] ELSE default

\* the block of the Document that the oracle's block b stands for
MappedBlock(b) ==
    LET ty == IF Has(b, "type") THEN b.v["type"] ELSE JNull
    IN  CASE ty = T("text") ->
                [kind |-> "para", claims |-> JNull,
                 text |-> FirstOf(b, "content", "text", JStr(<<>>)).v]
          [] ty = T("list") ->
                [kind |-> "list",
                 items |-> Texts(FirstOf(b, "items", "content", EmptyList))]
          [] ty = T("table") ->
                [kind |-> "table",
                 rows |-> LET r == FirstOf(b, "rows", "content", EmptyList).v
                          IN  [i \in 1..Len(r) |-> Texts(r[i])]]
          [] ty = T("chart") ->
                [kind |-> "chart",
                 spec |-> FirstOf(b, "spec", "content", JObj(NoFields))]
          [] OTHER ->
                [kind |-> "para", claims |-> JNull,
                 text |-> PyStr(FirstOf(b, "content", "text", JStr(<<>>))).v]

InputSections == pure.json.v["sections"].v
InputBlocks(i) == DictGet(InputSections[i], "blocks", EmptyList).v

SectionsGiven ==
    Normalized /\ Has(pure.json, "sections") /\ IsList(pure.json.v["sections"])

\* C20: each block of the oracle's output becomes one block of the Document,
\* chosen by its type, the first match winning: "text" a Paragraph with the
\* text of content, of text when content is absent; "list" a List of items,
\* else content; "table" a Table of rows, else content; "chart" a Chart of
\* spec, else content; any other type, or none, a Paragraph whose text is
\* content, else text, as a string. Each section keeps the number and the
\* order of its blocks.
C20_BlockMapping ==
    SectionsGiven =>
        /\ pure.built.ok
        /\ Len(pure.built.doc.sections) = Len(InputSections)
        /\ \A i \in 1..Len(InputSections) :
              /\ Len(pure.built.doc.sections[i].blocks) = Len(InputBlocks(i))
              /\ \A n \in 1..Len(InputBlocks(i)) :
                    pure.built.doc.sections[i].blocks[n]
                        = MappedBlock(InputBlocks(i)[n])

\* a section of two blocks of different kinds, the second one a list that
\* has both items and content
C20_Witness ==
    /\ SectionsGiven /\ pure.built.ok
    /\ Len(InputSections) = 1 /\ Len(InputBlocks(1)) = 2
    /\ DictGet(InputBlocks(1)[1], "type", JNull) = T("text")
    /\ DictGet(InputBlocks(1)[2], "type", JNull) = T("list")
    /\ Has(InputBlocks(1)[2], "items") /\ Has(InputBlocks(1)[2], "content")
    /\ pure.built.doc.sections[1].blocks[1].kind = "para"
    /\ pure.built.doc.sections[1].blocks[2]
          = [kind |-> "list", items |-> <<<<"a">>, <<"b">>>>]

-----------------------------------------------------------------------------
(* Properties of the retrieval snapshot (SpecSnapshot) *)

SourceSet(delivered) == {delivered[i] : i \in 1..Len(delivered)}

\* the place of source x of S in ascending (title, id) order
Rank(x, S) ==
    1 + Cardinality({y \in S : y.title < x.title
                                \/ (y.title = x.title /\ y.id < x.id)})

\* the first topK sources of S in ascending (title, id) order, reduced
ExpectedSnapshot(S, topK) ==
    [i \in 1..Min(topK, Cardinality(S)) |->
        LET x == CHOOSE y \in S : Rank(y, S) = i
        IN  [id |-> x.id, title |-> x.title, hash |-> x.body]]

\* C16: the snapshot is the first topK sources of the source set in
\* ascending (title, id) order, each reduced to id, title and content hash,
\* in whatever order the corpus delivers them; no source gives no entry.
C16_SnapshotOfSourceSet ==
    (pure.fn = "snapshot" /\ pure.done) =>
        pure.snapshot =
            ExpectedSnapshot(SourceSet(pure.delivered),
                             gearProfiles[pure.mode].ragTopK)

\* seven sources under turbo (topK 6), the first in (title, id) order
\* delivered last: the snapshot misses it
C16_DeliveryOrderShows ==
    /\ pure.fn = "snapshot" /\ pure.done /\ pure.mode = "turbo"
    /\ Len(pure.delivered) = 7
    /\ pure.delivered[7] = Source(3)
    /\ Len(pure.snapshot) = 6
    /\ \A i \in 1..6 : pure.snapshot[i].id /= 3

====
